---- MODULE Spec2Model ----
(***************************************************************************)
(* Session-scoped model routing of the openclaw-model-selector plugin.     *)
(* The router modelled first is the v6 plugin (Beads integration): one     *)
(* SessionState per session key, the escalation ledger file, and the three *)
(* hooks before_agent_start, after_tool_call and session_end.              *)
(*                                                                         *)
(* Text is a sequence of one-character strings, so that toLowerCase,       *)
(* String.includes, String.split and the "bd close" regular expression are *)
(* computed character by character as the code computes them.  Model       *)
(* identifiers, category names, session keys and tool names are never      *)
(* searched or split by the v6 code and are plain strings.                 *)
(***************************************************************************)
EXTENDS Integers, Sequences, FiniteSets, TLC

VARIABLES
  sessionStates,   \* Map<string, SessionState>: a function on the keys present
  ledger,          \* activeEscalations of .beads/model-state.json
  beadsCreated,    \* how many beads the external tracker (bd) has created
  cfg,             \* the configuration register() built
  event,           \* the hook invocation handled by the last step
  result,          \* what that hook returned to the host
  openSuggestion,  \* per session key: the suggest directive still unanswered
  pending,         \* the hook invocations and file operations begun and not yet finished
  active           \* the host's sessions that have begun and have not ended

vars == <<sessionStates, ledger, beadsCreated, cfg, event, result, openSuggestion, pending, active>>

\* no invocation is suspended: every hook of v3..v6 runs to completion in one step
NoCalls == <<>>

\* the routers modelled by session key do not tell the host's sessions apart
NoSessions == {}

----------------------------------------------------------------------------
(* JavaScript values *)

Null == "null"
Undefined == "undefined"
\* null / undefined where the defined values are sequences (texts, lists)
NullText == <<"null">>
UndefinedText == <<"undefined">>

\* a string or null/undefined used as a condition
Truthy(s) == s \notin {Null, Undefined, ""}
TruthyText(s) == s \notin {NullText, UndefinedText, <<>>}

----------------------------------------------------------------------------
(* String primitives *)

UpperLetters ==
  <<"A","B","C","D","E","F","G","H","I","J","K","L","M",
    "N","O","P","Q","R","S","T","U","V","W","X","Y","Z">>
LowerLetters ==
  <<"a","b","c","d","e","f","g","h","i","j","k","l","m",
    "n","o","p","q","r","s","t","u","v","w","x","y","z">>
DigitChars == <<"0","1","2","3","4","5","6","7","8","9">>

Range(seq) == { seq[i] : i \in DOMAIN seq }

LowerChar(c) ==
  IF c \in Range(UpperLetters)
  THEN LowerLetters[CHOOSE i \in DOMAIN UpperLetters : UpperLetters[i] = c]
  ELSE c

toLowerCase(text) == [i \in 1..Len(text) |-> LowerChar(text[i])]

\* text.includes(s)
includes(text, s) ==
  \E i \in 0..(Len(text) - Len(s)) : \A j \in 1..Len(s) : text[i + j] = s[j]

\* list.some((s) => t.includes(s))
someIncluded(list, t) == \E s \in list : includes(t, s)

slice(text, from, to) ==
  [i \in 1..((IF to < Len(text) THEN to ELSE Len(text)) - from) |-> text[from + i]]

----------------------------------------------------------------------------
(* Classification *)

SECURITY_AUDIT_SIGNALS ==
  { <<"s","e","c","u","r","i","t","y"," ","r","e","v","i","e","w">>,
    <<"c","o","d","e"," ","r","e","v","i","e","w">>,
    <<"f","i","n","d"," ","b","u","g","s"," ","i","n">>,
    <<"f","i","n","d"," ","v","u","l","n","e","r","a","b","i","l","i","t","i","e","s">>,
    <<"s","e","c","u","r","i","t","y"," ","a","u","d","i","t">>,
    <<"c","o","d","e"," ","a","u","d","i","t">>,
    <<"p","e","n","e","t","r","a","t","i","o","n"," ","t","e","s","t">>,
    <<"c","o","m","p","l","i","a","n","c","e"," ","r","e","v","i","e","w">>,
    <<"s","e","c","u","r","i","t","y"," ","i","s","s","u","e">>,
    <<"v","u","l","n","e","r","a","b","i","l","i","t","y"," ","a","s","s","e","s","s","m","e","n","t">> }

CODING_SIGNALS ==
  { <<"U+0060","U+0060","U+0060">>,
    <<"w","r","i","t","e"," ","c","o","d","e">>,
    <<"w","r","i","t","e"," ","a"," ","s","c","r","i","p","t">>,
    <<"b","u","i","l","d"," ","a"," ","s","c","r","i","p","t">>,
    <<"c","r","e","a","t","e"," ","a"," ","s","c","r","i","p","t">>,
    <<"w","r","i","t","e"," ","a"," ","f","u","n","c","t","i","o","n">>,
    <<"d","e","b","u","g">>,
    <<"f","i","x"," ","t","h","i","s"," ","c","o","d","e">>,
    <<"r","e","f","a","c","t","o","r">>,
    <<"i","m","p","l","e","m","e","n","t">>,
    <<"t","y","p","e","s","c","r","i","p","t">>,
    <<"j","a","v","a","s","c","r","i","p","t">>,
    <<"p","y","t","h","o","n">>,
    <<"b","a","s","h">>,
    <<"s","q","l">>,
    <<"a","p","i"," ","e","n","d","p","o","i","n","t">>,
    <<"u","n","i","t"," ","t","e","s","t">>,
    <<"p","u","l","l"," ","r","e","q","u","e","s","t">>,
    <<"s","t","a","c","k"," ","t","r","a","c","e">>,
    <<"e","r","r","o","r",":">>,
    <<"e","x","c","e","p","t","i","o","n">>,
    <<"f","u","n","c","t","i","o","n">>,
    <<"c","l","a","s","s">>,
    <<"m","o","d","u","l","e">> }

COMPLEX_SIGNALS ==
  { <<"o","r","c","h","e","s","t","r","a","t">>,
    <<"c","o","o","r","d","i","n","a","t","e">>,
    <<"m","u","l","t","i","-","a","g","e","n","t">>,
    <<"s","u","b","-","a","g","e","n","t">>,
    <<"s","p","a","w","n">>,
    <<"d","e","l","e","g","a","t","e">>,
    <<"a","r","c","h","i","t","e","c","t">>,
    <<"s","y","s","t","e","m"," ","d","e","s","i","g","n">>,
    <<"e","n","d","-","t","o","-","e","n","d">>,
    <<"m","i","g","r","a","t","e">>,
    <<"r","o","l","l","o","u","t">>,
    <<"i","n","f","r","a","s","t","r","u","c","t","u","r","e">>,
    <<"b","u","i","l","d"," ","t","h","e">>,
    <<"c","r","e","a","t","e"," ","t","h","e"," ","s","y","s","t","e","m">>,
    <<"d","e","s","i","g","n"," ","t","h","e">>,
    <<"m","u","l","t","i","-","s","t","e","p"," ","w","o","r","k","f","l","o","w">>,
    <<"c","o","m","p","l","e","x"," ","w","o","r","k","f","l","o","w">>,
    <<"d","i","s","s","e","r","t","a","t","i","o","n">>,
    <<"c","o","m","p","r","e","h","e","n","s","i","v","e"," ","e","x","a","m">>,
    <<"s","y","s","t","e","m","a","t","i","c"," ","t","h","e","o","l","o","g","y">>,
    <<"r","e","s","e","a","r","c","h"," ","p","r","o","j","e","c","t">>,
    <<"c","a","p","s","t","o","n","e">> }

MODERATE_SIGNALS ==
  { <<"r","e","s","e","a","r","c","h">>,
    <<"a","n","a","l","y","z","e">>,
    <<"e","v","a","l","u","a","t","e">>,
    <<"c","o","m","p","a","r","e">>,
    <<"s","u","m","m","a","r","i","z","e">>,
    <<"i","n","v","e","s","t","i","g","a","t","e">>,
    <<"l","o","o","k"," ","i","n","t","o">>,
    <<"f","i","n","d"," ","o","u","t"," ","a","b","o","u","t">>,
    <<"w","h","a","t"," ","d","o"," ","y","o","u"," ","t","h","i","n","k">>,
    <<"h","e","l","p"," ","m","e"," ","u","n","d","e","r","s","t","a","n","d">>,
    <<"e","x","p","l","a","i","n"," ","i","n"," ","d","e","t","a","i","l">>,
    <<"a","u","d","i","t"," ","m","y"," ","t","a","s","k","s">>,
    <<"r","e","v","i","e","w"," ","m","y"," ","l","i","s","t">>,
    <<"c","l","e","a","n"," ","u","p">>,
    <<"o","r","g","a","n","i","z","e">>,
    <<"t","i","d","y"," ","u","p">>,
    <<"c","o","n","s","o","l","i","d","a","t","e">>,
    <<"d","r","a","f","t">>,
    <<"w","r","i","t","e"," ","a">>,
    <<"d","o","c","u","m","e","n","t">>,
    <<"p","r","o","p","o","s","a","l">>,
    <<"e","m","a","i","l">>,
    <<"r","e","p","o","r","t">>,
    <<"m","e","m","o">>,
    <<"o","u","t","l","i","n","e">>,
    <<"e","s","s","a","y">>,
    <<"p","a","p","e","r">>,
    <<"t","h","e","s","i","s">>,
    <<"s","e","r","m","o","n">>,
    <<"e","x","e","g","e","s","i","s">>,
    <<"h","e","r","m","e","n","e","u","t","i","c">>,
    <<"c","o","m","m","e","n","t","a","r","y">>,
    <<"b","i","b","l","i","o","g","r","a","p","h","y">>,
    <<"c","i","t","a","t","i","o","n">>,
    <<"l","i","t","e","r","a","t","u","r","e"," ","r","e","v","i","e","w">>,
    <<"s","t","u","d","y"," ","g","u","i","d","e">>,
    <<"l","e","c","t","u","r","e"," ","n","o","t","e","s">>,
    <<"g","r","e","e","k">>,
    <<"h","e","b","r","e","w">>,
    <<"t","h","e","o","l","o","g","i","c","a","l">>,
    <<"d","o","c","t","r","i","n","e">>,
    <<"s","c","r","i","p","t","u","r","e">> }

Categories == {"simple", "moderate", "coding", "complex", "security-audit"}

classifyTask(text) ==
  LET t == toLowerCase(text) IN
  IF someIncluded(SECURITY_AUDIT_SIGNALS, t) THEN "security-audit"
  ELSE IF someIncluded(COMPLEX_SIGNALS, t) THEN "complex"
  ELSE IF someIncluded(CODING_SIGNALS, t) THEN "coding"
  ELSE IF someIncluded(MODERATE_SIGNALS, t) THEN "moderate"
  ELSE "simple"

DEFAULT_CONFIG ==
  [ enabled |-> TRUE,
    announceSwitch |-> TRUE,
    models |->
      [ simple |-> <<>>,
        moderate |-> <<"sonnet", "gemini-flash">>,
        coding |-> <<"opus", "sonnet", "gemini-flash">>,
        complex |-> <<"opus", "gemini-pro">>,
        securityAudit |-> <<"openai-codex/gpt-5.2", "opus">> ] ]

\* models[category]
ModelsOf(models, category) ==
  CASE category = "simple" -> models.simple
    [] category = "moderate" -> models.moderate
    [] category = "coding" -> models.coding
    [] category = "complex" -> models.complex
    [] category = "security-audit" -> models.securityAudit

getModelList(category, conf) == ModelsOf(conf.models, category)

SentenceEnd == {".", "!", "?", "\n"}
SummaryLimit == 60

\* text.split(/[.!?\n]/)[0]
FirstPiece(text) ==
  IF \E i \in 1..Len(text) : text[i] \in SentenceEnd
  THEN slice(text, 0, (CHOOSE i \in 1..Len(text) :
                         /\ text[i] \in SentenceEnd
                         /\ \A j \in 1..(i - 1) : text[j] \notin SentenceEnd) - 1)
  ELSE text

extractTaskSummary(text) ==
  LET firstSentence == IF FirstPiece(text) = <<>> THEN text ELSE FirstPiece(text)
      summary == slice(firstSentence, 0, SummaryLimit)
  IN IF Len(summary) < Len(firstSentence) THEN summary \o <<".",".",".">> ELSE summary

----------------------------------------------------------------------------
(* Plugin configuration *)

\* x ?? d
Coalesce(x, d) == IF x \in {UndefinedText, NullText} THEN d ELSE x

\* what the host may pass as api.pluginConfig (models only; the plugin is enabled)
PluginConfigs ==
  { [ models |-> [ simple |-> UndefinedText, moderate |-> UndefinedText,
                   coding |-> UndefinedText, complex |-> UndefinedText,
                   securityAudit |-> UndefinedText ] ] }

\* the cfg object built by register()
RegisterConfig(rawCfg) ==
  [ enabled |-> DEFAULT_CONFIG.enabled,
    announceSwitch |-> DEFAULT_CONFIG.announceSwitch,
    models |->
      [ simple |-> Coalesce(rawCfg.models.simple, DEFAULT_CONFIG.models.simple),
        moderate |-> Coalesce(rawCfg.models.moderate, DEFAULT_CONFIG.models.moderate),
        coding |-> Coalesce(rawCfg.models.coding, DEFAULT_CONFIG.models.coding),
        complex |-> Coalesce(rawCfg.models.complex, DEFAULT_CONFIG.models.complex),
        securityAudit |-> Coalesce(rawCfg.models.securityAudit,
                                   DEFAULT_CONFIG.models.securityAudit) ] ]

----------------------------------------------------------------------------
(* Session state *)

InitialState ==
  [ currentModel |-> Null,
    currentBeadId |-> NullText,
    needsReturnAnnouncement |-> FALSE,
    suggestedModel |-> Undefined,
    suggestedCategory |-> Undefined,
    suggestedFallbacks |-> UndefinedText,
    suggestedTaskSummary |-> UndefinedText,
    pendingApproval |-> FALSE ]

\* sessionStates after getState(sessionKey): the entry is created when missing
getState(states, sessionKey) ==
  IF sessionKey \in DOMAIN states
  THEN states
  ELSE [k \in DOMAIN states \cup {sessionKey} |->
          IF k = sessionKey THEN InitialState ELSE states[k]]

\* the object held in the map is mutated in place
PutState(states, sessionKey, state) ==
  [k \in DOMAIN states \cup {sessionKey} |->
     IF k = sessionKey THEN state ELSE states[k]]

\* sessionStates.delete(id)
DeleteState(states, id) == [k \in DOMAIN states \ {id} |-> states[k]]

\* ctx.sessionKey ?? "unknown"
SessionKeyOf(ctx) == IF ctx.sessionKey = Undefined THEN "unknown" ELSE ctx.sessionKey

----------------------------------------------------------------------------
(* Escalation ledger (.beads/model-state.json) *)

addEscalation_append(led, entry) == Append(led, entry)

addEscalation(led, entry) ==
  LET Other(e) == e.beadId # entry.beadId
  IN Append(SelectSeq(led, Other), entry)

removeEscalation(led, beadId) ==
  LET Other(e) == e.beadId # beadId
  IN IF \E i \in DOMAIN led : led[i].beadId = beadId
     THEN SelectSeq(led, Other)
     ELSE led

HasEscalation(led, beadId) == \E i \in DOMAIN led : led[i].beadId = beadId

\* activeEscalations.find((e) => e.beadId === beadId): the first such entry
getEscalationByBead(led, beadId) ==
  led[CHOOSE i \in DOMAIN led :
        /\ led[i].beadId = beadId
        /\ \A j \in 1..(i - 1) : led[j].beadId # beadId]

----------------------------------------------------------------------------
(* Beads tracker *)

MaxBeads == 1

\* the id "bd create" answers for the n-th bead
BeadId(n) == <<"b","d","-">> \o <<DigitChars[n + 1]>>

\* createBead: the new bead's id, or null when the bd command fails
createBead(created, succeeds) == IF succeeds THEN BeadId(created + 1) ELSE NullText

----------------------------------------------------------------------------
(* Injection builders: the fields each injected text is built from *)

NoDirective == [kind |-> "none"]

\* an exception that leaves a handler: the host sees the hook reject
Raised == [kind |-> "raised"]

buildSuggestionInjection(category, model, fallbacks) ==
  [kind |-> "suggest", category |-> category, model |-> model, fallbacks |-> fallbacks]

buildSwitchInjection(category, model, beadId, fallbacks) ==
  [kind |-> "switch", category |-> category, model |-> model,
   beadId |-> beadId, fallbacks |-> fallbacks]

buildReturnToDefaultInjection(beadId) == [kind |-> "revert", beadId |-> beadId]

----------------------------------------------------------------------------
(* Host events *)

SessionKeys == {"agent:main", "unknown"}

\* PluginHookAgentContext / PluginHookToolContext: the host may give no key
HookContexts == { [sessionKey |-> "agent:main"], [sessionKey |-> Undefined] }

\* session_end carries a session id; the host may or may not use the
\* session key as the id
SessionEndContexts == { [sessionId |-> "agent:main"], [sessionId |-> "7f3a"],
                        [sessionId |-> Undefined] }

UserTexts ==
  { <<"H","e","l","l","o"," ","t","h","e","r","e","."," ","H","o","w"," ","a","r","e"," ","y","o","u">>,
    <<"G","o"," ","a","h","e","a","d">>,
    <<"s","t","a","y"," ","o","n"," ","h","a","i","k","u">>,
    <<"n","o"," ","s","w","i","t","c","h",","," ","b","u","t"," ","g","o"," ","a","h","e","a","d">>,
    <<"p","l","e","a","s","e"," ","r","e","f","a","c","t","o","r"," ","t","h","i","s"," ","f","u","n","c","t","i","o","n"," ","s","o"," ","t","h","a","t"," ","i","t"," ","h","a","n","d","l","e","s"," ","e","m","p","t","y"," ","i","n","p","u","t"," ","a","n","d"," ","a","d","d"," ","t","e","s","t","s">>,
    <<"l","o","o","k"," ","i","n","t","o"," ","i","t","."," ","t","h","a","n","k","s">> }

Message(role, content) == [role |-> role, content |-> content]

\* PluginHookBeforeAgentStartEvent: prompt, and messages when the host has a history
TurnEvents ==
  { [prompt |-> p, hasMessages |-> FALSE, messages |-> <<>>] : p \in UserTexts }
  \cup
  { [prompt |-> <<"H","e","l","l","o"," ","t","h","e","r","e","."," ","H","o","w"," ","a","r","e"," ","y","o","u">>, hasMessages |-> TRUE,
     messages |-> << Message("user", <<"s","t","a","y"," ","o","n"," ","h","a","i","k","u">>),
                     Message("assistant", <<"G","o"," ","a","h","e","a","d">>) >>],
    [prompt |-> <<"G","o"," ","a","h","e","a","d">>, hasMessages |-> TRUE,
     messages |-> << Message("assistant", <<"s","t","a","y"," ","o","n"," ","h","a","i","k","u">>) >>] }

\* the last message of role user, else the prompt
ExtractUserText(ev) ==
  IF ev.hasMessages /\ \E i \in DOMAIN ev.messages : ev.messages[i].role = "user"
  THEN ev.messages[CHOOSE i \in DOMAIN ev.messages :
                     /\ ev.messages[i].role = "user"
                     /\ \A j \in (i + 1)..Len(ev.messages) :
                          ev.messages[j].role # "user"].content
  ELSE ev.prompt

----------------------------------------------------------------------------
(* Tool calls: the "bd close <bead-id>" pattern *)

WhiteSpace == {" ", "\t", "\n"}
WordChars == Range(UpperLetters) \cup Range(LowerLetters) \cup Range(DigitChars) \cup {"_"}

\* the end of the run of characters of class (or of its complement) from i on
RunEnd(text, i, class, inside) ==
  IF \E k \in i..Len(text) : (text[k] \in class) # inside
  THEN (CHOOSE k \in i..Len(text) :
          /\ (text[k] \in class) # inside
          /\ \A j \in i..(k - 1) : (text[j] \in class) = inside) - 1
  ELSE Len(text)

LiteralAt(text, i, s) ==
  /\ i + Len(s) - 1 <= Len(text)
  /\ \A j \in 1..Len(s) : text[i + j - 1] = s[j]

\* /\bbd\s+close\s+(\S+)/ matched with "bd" at position i: the capture's bounds
CloseMatchAt(command, i) ==
  LET ws1 == RunEnd(command, i + 2, WhiteSpace, TRUE)
      ws2 == RunEnd(command, ws1 + 6, WhiteSpace, TRUE)
      idEnd == RunEnd(command, ws2 + 1, WhiteSpace, FALSE)
  IN [ matches |->
         /\ LiteralAt(command, i, <<"b","d">>)
         /\ (i = 1 \/ command[i - 1] \notin WordChars)
         /\ ws1 >= i + 2
         /\ LiteralAt(command, ws1 + 1, <<"c","l","o","s","e">>)
         /\ ws2 >= ws1 + 6
         /\ idEnd >= ws2 + 1,
       from |-> ws2, to |-> idEnd ]

\* command.match(...): the captured bead id of the leftmost match, or null
closeMatch(command) ==
  IF \E i \in 1..Len(command) : CloseMatchAt(command, i).matches
  THEN LET i == CHOOSE k \in 1..Len(command) :
                  /\ CloseMatchAt(command, k).matches
                  /\ \A j \in 1..(k - 1) : ~CloseMatchAt(command, j).matches
           m == CloseMatchAt(command, i)
       IN slice(command, m.from, m.to)
  ELSE NullText

Commands ==
  { <<"b","d"," ","c","l","o","s","e"," ">> \o BeadId(n) : n \in 1..MaxBeads }
  \cup
  { <<"c","d"," ","/","w","s"," ","&","&"," ","b","d"," "," ","c","l","o","s","e"," ","b","d","-","1"," ","2",">","/","d","e","v","/","n","u","l","l">>,
    <<"b","d"," ","c","l","o","s","e"," ","\"","b","d","-","1","\"">>,
    <<"r","e","b","d"," ","c","l","o","s","e"," ","b","d","-","1">> }

\* PluginHookAfterToolCallEvent: toolName, and args.command when args is given
ToolCalls ==
  { [toolName |-> "exec", hasArgs |-> TRUE, command |-> c] : c \in Commands }
  \cup
  { [toolName |-> "read", hasArgs |-> TRUE, command |-> <<"b","d"," ","c","l","o","s","e"," ","b","d","-","1">>],
    [toolName |-> "exec", hasArgs |-> FALSE, command |-> <<>>] }

----------------------------------------------------------------------------
(* The pure functions of the hooks, tabulated over the inputs of the model *)

Lookup(table, x) == (CHOOSE p \in table : p[1] = x)[2]

approves ==
  { <<"g","o"," ","a","h","e","a","d">>, <<"p","r","o","c","e","e","d">>, <<"y","e","s">>, <<"y","e","p">>, <<"a","p","p","r","o","v","e">>, <<"o","k">>, <<"d","o"," ","i","t">>, <<"l","g","t","m">> }
overrides ==
  { <<"s","t","a","y"," ","o","n">>, <<"s","t","a","y"," ","w","i","t","h">>, <<"k","e","e","p"," ","c","u","r","r","e","n","t">>, <<"n","o"," ","s","w","i","t","c","h">>, <<"u","s","e"," ","d","e","f","a","u","l","t">> }

Approves(userText) == someIncluded(approves, toLowerCase(userText))
Overrides(userText) == someIncluded(overrides, toLowerCase(userText))

\* the phrases the README gives the user for answering a suggestion
ReadmeApproves ==
  { <<"g","o"," ","a","h","e","a","d">>, <<"p","r","o","c","e","e","d">>, <<"y","e","s">>, <<"a","p","p","r","o","v","e">>, <<"d","o"," ","i","t">>, <<"o","k">> }
ReadmeOverrides ==
  { <<"s","t","a","y"," ","o","n">>, <<"s","t","a","y"," ","w","i","t","h">>, <<"k","e","e","p">>, <<"n","o"," ","s","w","i","t","c","h">>, <<"u","s","e"," ","d","e","f","a","u","l","t">> }

TabulatedTexts == UserTexts \cup ReadmeApproves \cup ReadmeOverrides

ApprovesTable == { <<x, Approves(x)>> : x \in TabulatedTexts }
OverridesTable == { <<x, Overrides(x)>> : x \in TabulatedTexts }
ClassifyTable == { <<x, classifyTask(x)>> : x \in TabulatedTexts }
SummaryTable == { <<x, extractTaskSummary(x)>> : x \in TabulatedTexts }
CloseMatchTable == { <<x, closeMatch(x)>> : x \in Commands \cup {<<>>} }

----------------------------------------------------------------------------
(* Hook: before_agent_start *)

\* state.needsReturnAnnouncement && state.currentBeadId
ReturnQueued(state) ==
  state.needsReturnAnnouncement /\ TruthyText(state.currentBeadId)

ReturnToDefault_keepsModel(state) ==
  [state EXCEPT !.needsReturnAnnouncement = FALSE,
                !.currentBeadId = NullText]

ReturnToDefault_keepsQueue(state) ==
  [state EXCEPT !.currentModel = Null]

\* the writes of the return-to-default branch
ReturnToDefault(state) ==
  [state EXCEPT !.needsReturnAnnouncement = FALSE,
                !.currentBeadId = NullText,
                !.currentModel = Null]

ApproveSuggestion_keepsPending(state, beadId) ==
  [state EXCEPT !.currentBeadId = IF TruthyText(beadId) THEN beadId ELSE @,
                !.currentModel = state.suggestedModel]

\* the approval branch's writes to the session state
ApproveSuggestion(state, beadId) ==
  [state EXCEPT !.currentBeadId = IF TruthyText(beadId) THEN beadId ELSE @,
                !.currentModel = state.suggestedModel,
                !.pendingApproval = FALSE,
                !.suggestedModel = Undefined,
                !.suggestedCategory = Undefined,
                !.suggestedFallbacks = UndefinedText,
                !.suggestedTaskSummary = UndefinedText]

\* the approval branch's write to the ledger
RecordEscalation(led, state, beadId, sessionKey) ==
  IF TruthyText(beadId)
  THEN addEscalation(led, [beadId |-> beadId,
                           model |-> state.suggestedModel,
                           category |-> state.suggestedCategory,
                           sessionKey |-> sessionKey])
  ELSE led

SwitchInjection_namesFallback(state, beadId) ==
  buildSwitchInjection(
    state.suggestedCategory,
    IF TruthyText(state.suggestedFallbacks) /\ state.suggestedFallbacks # <<>>
    THEN state.suggestedFallbacks[1] ELSE state.suggestedModel,
    IF TruthyText(beadId) THEN beadId ELSE <<"u","n","k","n","o","w","n">>,
    IF TruthyText(state.suggestedFallbacks) THEN state.suggestedFallbacks ELSE <<>>)

\* the switch injection the approval branch builds
SwitchInjection(state, beadId) ==
  buildSwitchInjection(
    state.suggestedCategory,
    state.suggestedModel,
    IF TruthyText(beadId) THEN beadId ELSE <<"u","n","k","n","o","w","n">>,
    IF TruthyText(state.suggestedFallbacks) THEN state.suggestedFallbacks ELSE <<>>)

OverrideSuggestion_keepsModel(state) ==
  [state EXCEPT !.pendingApproval = FALSE]

OverrideSuggestion_toDefault(state) ==
  [state EXCEPT !.currentModel = Null,
                !.pendingApproval = FALSE,
                !.suggestedModel = Undefined,
                !.suggestedCategory = Undefined,
                !.suggestedFallbacks = UndefinedText,
                !.suggestedTaskSummary = UndefinedText]

\* the override branch's writes
OverrideSuggestion(state) ==
  [state EXCEPT !.pendingApproval = FALSE,
                !.suggestedModel = Undefined,
                !.suggestedCategory = Undefined,
                !.suggestedFallbacks = UndefinedText,
                !.suggestedTaskSummary = UndefinedText]

\* modelList.slice(1)
Rest(modelList) == [i \in 1..(Len(modelList) - 1) |-> modelList[i + 1]]

\* modelList[0]
First(modelList) == IF modelList = <<>> THEN Undefined ELSE modelList[1]

MakeSuggestion_switches(state, category, modelList, userText) ==
  [state EXCEPT !.currentModel = First(modelList),
                !.suggestedModel = First(modelList),
                !.suggestedCategory = category,
                !.suggestedFallbacks = Rest(modelList),
                !.suggestedTaskSummary = Lookup(SummaryTable, userText),
                !.pendingApproval = TRUE]

\* the writes of a suggestion
MakeSuggestion(state, category, modelList, userText) ==
  [state EXCEPT !.suggestedModel = First(modelList),
                !.suggestedCategory = category,
                !.suggestedFallbacks = Rest(modelList),
                !.suggestedTaskSummary = Lookup(SummaryTable, userText),
                !.pendingApproval = TRUE]

\* What a branch of the handler leaves: the session state, the ledger, the
\* number of beads created, the handler's result, and the return reached.
Outcome(state, led, created, res, branch) ==
  [state |-> state, ledger |-> led, created |-> created,
   result |-> res, branch |-> branch]

\* a classification branch that suggests the model the session is already on
classifyBranch_resuggests(state, led, created, userText, conf) ==
  LET category == Lookup(ClassifyTable, userText)
      modelList == getModelList(category, conf)
      primaryModel == First(modelList)
  IN
  IF category = "simple" THEN Outcome(state, led, created, NoDirective, "simple")
  ELSE IF ~Truthy(primaryModel)
    THEN Outcome(state, led, created, NoDirective, "noModel")
  ELSE Outcome(MakeSuggestion(state, category, modelList, userText), led, created,
               buildSuggestionInjection(category, primaryModel, Rest(modelList)),
               "suggest")

\* "Classify incoming message" to the end of the handler
classifyBranch(state, led, created, userText, conf) ==
  LET category == Lookup(ClassifyTable, userText)
      modelList == getModelList(category, conf)
      primaryModel == First(modelList)
  IN
  IF category = "simple" THEN Outcome(state, led, created, NoDirective, "simple")
  ELSE IF ~Truthy(primaryModel)
    THEN Outcome(state, led, created, NoDirective, "noModel")
  ELSE IF state.currentModel = primaryModel
    THEN Outcome(state, led, created, NoDirective, "sameModel")
  ELSE Outcome(MakeSuggestion(state, category, modelList, userText), led, created,
               buildSuggestionInjection(category, primaryModel, Rest(modelList)),
               "suggest")

pendingBranch_fallsThrough(state, led, created, sessionKey, userText, bdSucceeds, conf) ==
  LET beadId == createBead(created, bdSucceeds) IN
  IF Lookup(ApprovesTable, userText) THEN
    Outcome(ApproveSuggestion(state, beadId),
            RecordEscalation(led, state, beadId, sessionKey),
            IF TruthyText(beadId) THEN created + 1 ELSE created,
            SwitchInjection(state, beadId), "approve")
  ELSE IF Lookup(OverridesTable, userText) THEN
    Outcome(OverrideSuggestion(state), led, created, NoDirective, "override")
  ELSE classifyBranch(state, led, created, userText, conf)

\* "Handle pending approval": the body of if (pendingApproval && suggestedModel)
pendingBranch(state, led, created, sessionKey, userText, bdSucceeds, conf) ==
  LET beadId == createBead(created, bdSucceeds) IN
  IF Lookup(ApprovesTable, userText) THEN
    Outcome(ApproveSuggestion(state, beadId),
            RecordEscalation(led, state, beadId, sessionKey),
            IF TruthyText(beadId) THEN created + 1 ELSE created,
            SwitchInjection(state, beadId), "approve")
  ELSE IF Lookup(OverridesTable, userText) THEN
    Outcome(OverrideSuggestion(state), led, created, NoDirective, "override")
  ELSE Outcome(state, led, created, NoDirective, "waiting")

\* The handler, run on the object getState returned
beforeAgentStart(state, led, created, sessionKey, ev, bdSucceeds, conf) ==
  LET userText == ExtractUserText(ev) IN
  IF ReturnQueued(state) THEN
    Outcome(ReturnToDefault(state), led, created,
            buildReturnToDefaultInjection(state.currentBeadId), "return")
  ELSE IF state.pendingApproval /\ Truthy(state.suggestedModel) THEN
    pendingBranch(state, led, created, sessionKey, userText, bdSucceeds, conf)
  ELSE classifyBranch(state, led, created, userText, conf)

----------------------------------------------------------------------------
(* Hook: after_tool_call *)

\* the writes of the "bd close" branch when the escalation's model is current
QueueReturn(state, beadId) ==
  [state EXCEPT !.needsReturnAnnouncement = TRUE, !.currentBeadId = beadId]

afterToolCall_noModelCheck(state, led, call) ==
  LET command == IF call.hasArgs /\ TruthyText(call.command) THEN call.command ELSE <<>>
      beadId == Lookup(CloseMatchTable, command)
  IN
  IF call.toolName # "exec" \/ beadId = NullText \/ ~HasEscalation(led, beadId)
  THEN [state |-> state, ledger |-> led]
  ELSE [state |-> QueueReturn(state, beadId), ledger |-> removeEscalation(led, beadId)]

\* The handler, run on the object getState returned
afterToolCall(state, led, call) ==
  LET command == IF call.hasArgs /\ TruthyText(call.command) THEN call.command ELSE <<>>
      beadId == Lookup(CloseMatchTable, command)
      unchanged == [state |-> state, ledger |-> led]
  IN
  IF call.toolName # "exec" THEN unchanged
  ELSE IF beadId = NullText THEN unchanged
  ELSE IF ~HasEscalation(led, beadId) THEN unchanged
  ELSE
    [state |-> IF state.currentModel = getEscalationByBead(led, beadId).model
               THEN QueueReturn(state, beadId)
               ELSE state,
     ledger |-> removeEscalation(led, beadId)]

----------------------------------------------------------------------------
(* The plugin as a state machine *)

Init ==
  /\ sessionStates = [k \in {} |-> InitialState]
  /\ ledger = <<>>
  /\ beadsCreated = 0
  /\ cfg \in { RegisterConfig(raw) : raw \in PluginConfigs }
  /\ event = [hook |-> "register"]
  /\ result = NoDirective
  /\ openSuggestion = [k \in SessionKeys |-> Undefined]
  /\ pending = NoCalls
  /\ active = NoSessions

\* which suggest directive of a session key is still unanswered: set by a
\* suggest directive, ended by the approval and override branches
Answered(open, sessionKey, out) ==
  [open EXCEPT ![sessionKey] =
     IF out.branch = "suggest" THEN out.result.model
     ELSE IF out.branch \in {"approve", "override"} THEN Undefined
     ELSE @]

BeforeAgentStart(ctx, ev, bdSucceeds) ==
  LET sessionKey == SessionKeyOf(ctx)
      states == getState(sessionStates, sessionKey)
      out == beforeAgentStart(states[sessionKey], ledger, beadsCreated,
                              sessionKey, ev, bdSucceeds, cfg)
  IN /\ bdSucceeds => beadsCreated < MaxBeads
     /\ sessionStates' = PutState(states, sessionKey, out.state)
     /\ ledger' = out.ledger
     /\ beadsCreated' = out.created
     /\ event' = [hook |-> "before_agent_start", sessionKey |-> sessionKey,
                  userText |-> ExtractUserText(ev), branch |-> out.branch]
     /\ result' = out.result
     /\ openSuggestion' = Answered(openSuggestion, sessionKey, out)
     /\ UNCHANGED <<cfg, pending, active>>

AfterToolCall(ctx, call) ==
  LET sessionKey == SessionKeyOf(ctx)
      states == getState(sessionStates, sessionKey)
      out == afterToolCall(states[sessionKey], ledger, call)
  IN /\ sessionStates' = PutState(states, sessionKey, out.state)
     /\ ledger' = out.ledger
     /\ event' = [hook |-> "after_tool_call", sessionKey |-> sessionKey,
                  toolName |-> call.toolName,
                  command |-> IF call.hasArgs THEN call.command ELSE <<>>]
     /\ result' = NoDirective
     /\ UNCHANGED <<beadsCreated, cfg, openSuggestion, pending, active>>

\* Hook: session_end
sessionEnd(states, ctx) ==
  IF Truthy(ctx.sessionId) THEN DeleteState(states, ctx.sessionId) ELSE states

SessionEnd(ctx) ==
  /\ sessionStates' = sessionEnd(sessionStates, ctx)
  /\ event' = [hook |-> "session_end", sessionId |-> ctx.sessionId]
  /\ result' = NoDirective
  /\ openSuggestion' =
       [k \in SessionKeys |->
          IF k \in DOMAIN sessionStates' THEN openSuggestion[k] ELSE Undefined]
  /\ UNCHANGED <<ledger, beadsCreated, cfg, pending, active>>

Next ==
  \/ \E ctx \in HookContexts, ev \in TurnEvents, bdSucceeds \in BOOLEAN :
       BeforeAgentStart(ctx, ev, bdSucceeds)
  \/ \E ctx \in HookContexts, call \in ToolCalls : AfterToolCall(ctx, call)
  \/ \E ctx \in SessionEndContexts : SessionEnd(ctx)

Spec == Init /\ [][Next]_vars

----------------------------------------------------------------------------
(* Properties of the router *)

\* the SessionState a hook called for sessionKey k works on (getState)
Before(k) == getState(sessionStates, k)[k]
\* the SessionState the step leaves for k
After(k) == sessionStates'[k]

\* the step is a turn start of session key k / a tool call observed in k
TurnStart(k) == event'.hook = "before_agent_start" /\ event'.sessionKey = k
ToolCall(k) == event'.hook = "after_tool_call" /\ event'.sessionKey = k

SuggestionCleared(state) ==
  /\ ~state.pendingApproval
  /\ state.suggestedModel = Undefined
  /\ state.suggestedCategory = Undefined
  /\ state.suggestedFallbacks = UndefinedText

\* C1: in every reachable state, for every session held in the map,
\* pendingApproval is true if and only if suggestedModel is defined.
C1_PendingIffSuggested ==
  \A k \in DOMAIN sessionStates :
    sessionStates[k].pendingApproval <=> sessionStates[k].suggestedModel # Undefined

\* one session awaits an answer while another has had its suggestion approved
C1_Witness ==
  \E k1, k2 \in DOMAIN sessionStates :
    /\ sessionStates[k1].pendingApproval
    /\ sessionStates[k1].suggestedModel = "sonnet"
    /\ ~sessionStates[k2].pendingApproval
    /\ sessionStates[k2].suggestedModel = Undefined
    /\ sessionStates[k2].currentModel = "opus"

\* C2: a step changes a session's currentModel only if it is a turn start of
\* that session that approves the pending suggestion (the new model is the
\* suggested one, a switch directive is emitted) or that returns to the
\* default (a revert directive is emitted); a turn start that emits a
\* suggestion or nothing leaves currentModel unchanged.
C2_CurrentModelFrame ==
  [][ \A k \in DOMAIN sessionStates' :
        /\ After(k).currentModel # Before(k).currentModel
             => /\ TurnStart(k)
                /\ \/ /\ result'.kind = "switch"
                      /\ Before(k).pendingApproval
                      /\ After(k).currentModel = Before(k).suggestedModel
                   \/ /\ result'.kind = "revert"
                      /\ After(k).currentModel = Null
        /\ (TurnStart(k) /\ result'.kind \in {"suggest", "none"})
             => After(k).currentModel = Before(k).currentModel ]_vars

\* a turn start on the upgraded model has only classified and suggested
C2_Witness ==
  /\ event.hook = "before_agent_start"
  /\ result.kind = "suggest"
  /\ result.model = "sonnet"
  /\ sessionStates[event.sessionKey].currentModel = "opus"

\* C3: a switch directive for model m is emitted only by a turn start of a
\* session in which a suggestion for m is pending, the latest suggest
\* directive of that session was for m and has not been approved or
\* overridden since, and the turn's text contains an approval phrase.
C3_SwitchOnlyOnApproval ==
  [][ result'.kind = "switch" =>
        /\ event'.hook = "before_agent_start"
        /\ Before(event'.sessionKey).pendingApproval
        /\ Before(event'.sessionKey).suggestedModel = result'.model
        /\ openSuggestion[event'.sessionKey] = result'.model
        /\ Lookup(ApprovesTable, event'.userText) ]_vars

C3_Witness ==
  /\ result.kind = "switch"
  /\ result.model = "sonnet"
  /\ event.hook = "before_agent_start"
  /\ Lookup(ApprovesTable, event.userText)

\* C4 (as amended): when a suggestion for m is pending, no return to the
\* default is queued, and the turn's text contains an approval phrase, the turn
\* sets currentModel to m, sets pendingApproval to false, clears
\* suggestedModel, suggestedCategory and suggestedFallbacks, and emits a
\* switch directive naming m.
C4_ApprovalPromotes ==
  [][ \A k \in SessionKeys :
        ( /\ TurnStart(k)
          /\ Before(k).pendingApproval
          /\ ~ReturnQueued(Before(k))
          /\ Lookup(ApprovesTable, event'.userText) )
        => /\ After(k).currentModel = Before(k).suggestedModel
           /\ SuggestionCleared(After(k))
           /\ result'.kind = "switch"
           /\ result'.model = Before(k).suggestedModel ]_vars

\* C4 as stated: the same without the condition that no return is queued
C4_Original ==
  [][ \A k \in SessionKeys :
        ( /\ TurnStart(k)
          /\ Before(k).pendingApproval
          /\ Lookup(ApprovesTable, event'.userText) )
        => /\ After(k).currentModel = Before(k).suggestedModel
           /\ SuggestionCleared(After(k))
           /\ result'.kind = "switch"
           /\ result'.model = Before(k).suggestedModel ]_vars

C4_Witness ==
  /\ event.hook = "before_agent_start"
  /\ event.branch = "approve"
  /\ result.kind = "switch"
  /\ result.model = "opus"
  /\ result.beadId = BeadId(1)
  /\ sessionStates[event.sessionKey].currentModel = "opus"
  /\ SuggestionCleared(sessionStates[event.sessionKey])

\* C5 as stated: when a suggestion is pending (and no return is queued) and
\* the turn's text contains both an override phrase and an approval phrase,
\* the suggestion is cleared, currentModel is unchanged and no switch
\* directive is emitted.
C5_OverrideBeforeApproval ==
  [][ \A k \in SessionKeys :
        ( /\ TurnStart(k)
          /\ Before(k).pendingApproval
          /\ ~ReturnQueued(Before(k))
          /\ Lookup(OverridesTable, event'.userText)
          /\ Lookup(ApprovesTable, event'.userText) )
        => /\ SuggestionCleared(After(k))
           /\ After(k).currentModel = Before(k).currentModel
           /\ result'.kind # "switch" ]_vars

\* C6 (as amended): when a suggestion is pending, no return to the default is
\* queued, and the turn's text contains an override phrase and no approval
\* phrase, the turn clears pendingApproval and the suggested fields, emits no
\* directive, and leaves currentModel, currentBeadId, the queued-return flag
\* and the ledger unchanged.
C6_OverrideFrame ==
  [][ \A k \in SessionKeys :
        ( /\ TurnStart(k)
          /\ Before(k).pendingApproval
          /\ ~ReturnQueued(Before(k))
          /\ Lookup(OverridesTable, event'.userText)
          /\ ~Lookup(ApprovesTable, event'.userText) )
        => /\ SuggestionCleared(After(k))
           /\ After(k).suggestedTaskSummary = UndefinedText
           /\ result' = NoDirective
           /\ After(k).currentModel = Before(k).currentModel
           /\ After(k).currentBeadId = Before(k).currentBeadId
           /\ After(k).needsReturnAnnouncement = Before(k).needsReturnAnnouncement
           /\ ledger' = ledger ]_vars

\* C6 as stated: the same without the condition that no return is queued
C6_Original ==
  [][ \A k \in SessionKeys :
        ( /\ TurnStart(k)
          /\ Before(k).pendingApproval
          /\ Lookup(OverridesTable, event'.userText)
          /\ ~Lookup(ApprovesTable, event'.userText) )
        => /\ SuggestionCleared(After(k))
           /\ result' = NoDirective
           /\ After(k).currentModel = Before(k).currentModel
           /\ After(k).currentBeadId = Before(k).currentBeadId
           /\ After(k).needsReturnAnnouncement = Before(k).needsReturnAnnouncement
           /\ ledger' = ledger ]_vars

\* an override answered while on the upgraded model, with an escalation recorded
C6_Witness ==
  /\ event.hook = "before_agent_start"
  /\ event.branch = "override"
  /\ Lookup(OverridesTable, event.userText)
  /\ sessionStates[event.sessionKey].currentModel = "opus"
  /\ sessionStates[event.sessionKey].currentBeadId = BeadId(1)
  /\ SuggestionCleared(sessionStates[event.sessionKey])
  /\ ledger # <<>>

\* C7 (as amended): while a suggestion is pending and no return to the
\* default is queued, a turn whose text contains neither an approval nor an
\* override phrase emits no directive and leaves the SessionState and the
\* ledger unchanged, whatever the text classifies as; and no step replaces a
\* pending suggestion by another one.
C7_PendingIsKept ==
  [][ \A k \in SessionKeys :
        /\ ( /\ TurnStart(k)
             /\ Before(k).pendingApproval
             /\ ~ReturnQueued(Before(k))
             /\ ~Lookup(ApprovesTable, event'.userText)
             /\ ~Lookup(OverridesTable, event'.userText) )
           => /\ result' = NoDirective
              /\ After(k) = Before(k)
              /\ ledger' = ledger
        /\ ( /\ k \in DOMAIN sessionStates'
             /\ Before(k).pendingApproval
             /\ After(k).pendingApproval )
           => /\ After(k).suggestedModel = Before(k).suggestedModel
              /\ After(k).suggestedCategory = Before(k).suggestedCategory
              /\ After(k).suggestedFallbacks = Before(k).suggestedFallbacks
              /\ TurnStart(k) => result'.kind # "suggest" ]_vars

\* C7 as stated: the same without the condition that no return is queued
C7_Original ==
  [][ \A k \in SessionKeys :
        ( /\ TurnStart(k)
          /\ Before(k).pendingApproval
          /\ ~Lookup(ApprovesTable, event'.userText)
          /\ ~Lookup(OverridesTable, event'.userText) )
        => /\ result' = NoDirective
           /\ After(k) = Before(k) ]_vars

\* a coding request arrives while a suggestion for sonnet awaits its answer
C7_Witness ==
  /\ event.hook = "before_agent_start"
  /\ event.branch = "waiting"
  /\ Lookup(ClassifyTable, event.userText) = "coding"
  /\ sessionStates[event.sessionKey].pendingApproval
  /\ sessionStates[event.sessionKey].suggestedModel = "sonnet"

\* C8: when a return to the default is queued at turn start, the turn emits
\* the revert directive, clears the flag and currentBeadId, sets currentModel
\* to the default, and leaves pendingApproval, the suggested fields and the
\* ledger unchanged, whatever the turn's text.
C8_RevertFirst ==
  [][ \A k \in SessionKeys :
        (TurnStart(k) /\ ReturnQueued(Before(k)))
        => /\ result' = buildReturnToDefaultInjection(Before(k).currentBeadId)
           /\ ~After(k).needsReturnAnnouncement
           /\ After(k).currentBeadId = NullText
           /\ After(k).currentModel = Null
           /\ After(k).pendingApproval = Before(k).pendingApproval
           /\ After(k).suggestedModel = Before(k).suggestedModel
           /\ After(k).suggestedCategory = Before(k).suggestedCategory
           /\ After(k).suggestedFallbacks = Before(k).suggestedFallbacks
           /\ After(k).suggestedTaskSummary = Before(k).suggestedTaskSummary
           /\ ledger' = ledger ]_vars

\* the revert was emitted on a turn whose text approves, and the suggestion
\* is still pending
C8_Witness ==
  /\ event.hook = "before_agent_start"
  /\ event.branch = "return"
  /\ Lookup(ApprovesTable, event.userText)
  /\ result.kind = "revert"
  /\ sessionStates[event.sessionKey].pendingApproval
  /\ sessionStates[event.sessionKey].currentModel = Null

\* C9: a revert directive is emitted only by a turn start that finds the
\* return queued; the return is queued only by a tool-call step of that
\* session, which emits nothing; the first turn start that finds it queued
\* emits the revert, and leaves nothing queued.
C9_RevertOnNextTurn ==
  [][ /\ result'.kind = "revert"
        => /\ event'.hook = "before_agent_start"
           /\ ReturnQueued(Before(event'.sessionKey))
           /\ ~ReturnQueued(After(event'.sessionKey))
      /\ \A k \in DOMAIN sessionStates' :
           /\ (ReturnQueued(After(k)) /\ ~ReturnQueued(Before(k)))
                => (ToolCall(k) /\ result' = NoDirective)
           /\ (TurnStart(k) /\ ReturnQueued(Before(k)))
                => result'.kind = "revert" ]_vars

C9_Witness ==
  /\ event.hook = "before_agent_start"
  /\ result = buildReturnToDefaultInjection(BeadId(1))
  /\ ~sessionStates[event.sessionKey].needsReturnAnnouncement

\* the bead id a tool call names, or null
ClosedBead(ev) ==
  IF ev.toolName = "exec" THEN Lookup(CloseMatchTable, ev.command) ELSE NullText

\* C10: for a tool call that closes bead W: if the ledger holds an entry for W
\* and currentModel equals the entry's model, the entry is removed and the
\* return is queued with currentBeadId = W, and the next turn start of the
\* session emits revert for W; if the ledger holds no entry for W, or
\* currentModel differs from the entry's model, the session state is left
\* as it was (no return is queued by this call).
C10_TrackedCompletion ==
  [][ \A k \in SessionKeys :
        /\ (ToolCall(k) /\ ClosedBead(event') # NullText)
           => LET W == ClosedBead(event') IN
              IF HasEscalation(ledger, W)
                 /\ Before(k).currentModel = getEscalationByBead(ledger, W).model
              THEN /\ ~HasEscalation(ledger', W)
                   /\ After(k) = [Before(k) EXCEPT !.needsReturnAnnouncement = TRUE,
                                                   !.currentBeadId = W]
              ELSE After(k) = Before(k)
        /\ (TurnStart(k) /\ Before(k).needsReturnAnnouncement
                         /\ Before(k).currentBeadId # NullText)
           => result' = buildReturnToDefaultInjection(Before(k).currentBeadId) ]_vars

C10_Witness ==
  /\ event.hook = "after_tool_call"
  /\ ClosedBead(event) = BeadId(1)
  /\ sessionStates[event.sessionKey].needsReturnAnnouncement
  /\ sessionStates[event.sessionKey].currentBeadId = BeadId(1)
  /\ sessionStates[event.sessionKey].currentModel = "opus"
  /\ ~HasEscalation(ledger, BeadId(1))


\* C38: every turn start that emits a switch directive leaves in the ledger
\* an entry for the bead id the directive names, recording the approved
\* model, also when the bead could not be created.
C38_ApprovedSwitchTracked ==
  [][ result'.kind = "switch" =>
        /\ HasEscalation(ledger', result'.beadId)
        /\ getEscalationByBead(ledger', result'.beadId).model = result'.model ]_vars

\* C39: a tool call observed in a session queues a return to the default in
\* that session only if the ledger entry of the closed bead records that
\* session's key.
C39_RevertInRegisteringSession ==
  [][ \A k \in SessionKeys :
        ( /\ ToolCall(k)
          /\ After(k).needsReturnAnnouncement
          /\ ~Before(k).needsReturnAnnouncement )
        => /\ HasEscalation(ledger, After(k).currentBeadId)
           /\ getEscalationByBead(ledger, After(k).currentBeadId).sessionKey = k ]_vars
----------------------------------------------------------------------------
(* The v5 router (approval first, Todoist completion): src/index.ts 830-1316. *)
(* Its signal lists, classifyTask, getModelList, approval and override lists   *)
(* and suggestion injection are those of v6 above; it has no ledger and no     *)
(* bead, and its completion signal is the complete-tasks tool.                 *)

V5_DEFAULT_CONFIG ==
  [ enabled |-> TRUE,
    announceSwitch |-> TRUE,
    models |->
      [ simple |-> <<>>,
        moderate |-> <<"sonnet", "gemini-flash">>,
        coding |-> <<"opus", "sonnet", "gemini-flash">>,
        complex |-> <<"opus", "gemini-pro">>,
        securityAudit |-> <<"openai-codex/gpt-5.2", "opus">> ] ]

\* api.pluginConfig: without models, or with a models object that lists
\* some categories
V5_PluginConfigs ==
  { [ hasModels |-> FALSE, models |-> V5_DEFAULT_CONFIG.models ],
    [ hasModels |-> TRUE,
      models |-> [ simple |-> UndefinedText, moderate |-> <<"sonnet">>,
                   coding |-> UndefinedText, complex |-> UndefinedText,
                   securityAudit |-> UndefinedText ] ] }

\* { ...DEFAULT_CONFIG, ...api.pluginConfig }
V5_RegisterConfig(pluginConfig) ==
  [ enabled |-> V5_DEFAULT_CONFIG.enabled,
    announceSwitch |-> V5_DEFAULT_CONFIG.announceSwitch,
    models |-> IF pluginConfig.hasModels THEN pluginConfig.models
               ELSE V5_DEFAULT_CONFIG.models ]

\* models[category] ?? DEFAULT_CONFIG.models[category]
V5_getModelList(category, conf) ==
  Coalesce(ModelsOf(conf.models, category),
           ModelsOf(V5_DEFAULT_CONFIG.models, category))

V5_InitialState ==
  [ currentModel |-> Null,
    needsReturnAnnouncement |-> FALSE,
    suggestedModel |-> Undefined,
    suggestedCategory |-> Undefined,
    suggestedFallbacks |-> UndefinedText,
    pendingApproval |-> FALSE ]

V5_getState(states, sessionKey) ==
  IF sessionKey \in DOMAIN states
  THEN states
  ELSE [k \in DOMAIN states \cup {sessionKey} |->
          IF k = sessionKey THEN V5_InitialState ELSE states[k]]

V5_buildSwitchInjection(category, model, fallbacks) ==
  [kind |-> "switch", category |-> category, model |-> model, fallbacks |-> fallbacks]

V5_buildReturnToDefaultInjection == [kind |-> "revert"]

\* what a return of the handler leaves: the state, the result, the return reached
V5_Outcome(state, res, branch) == [state |-> state, result |-> res, branch |-> branch]

\* the writes of the return-to-default branch
V5_ReturnToDefault(state) == [state EXCEPT !.needsReturnAnnouncement = FALSE]

\* the writes of the approval branch
V5_ApproveSuggestion(state) ==
  [state EXCEPT !.currentModel = state.suggestedModel,
                !.pendingApproval = FALSE,
                !.suggestedModel = Undefined,
                !.suggestedCategory = Undefined,
                !.suggestedFallbacks = UndefinedText]

\* the writes of the override branch
V5_OverrideSuggestion(state) ==
  [state EXCEPT !.pendingApproval = FALSE,
                !.suggestedModel = Undefined,
                !.suggestedCategory = Undefined,
                !.suggestedFallbacks = UndefinedText]

\* the writes of a suggestion
V5_MakeSuggestion(state, category, modelList) ==
  [state EXCEPT !.suggestedModel = First(modelList),
                !.suggestedCategory = category,
                !.suggestedFallbacks = Rest(modelList),
                !.pendingApproval = TRUE]

\* "Classify the incoming message" to the end of the handler
V5_classifyBranch(state, userText, conf) ==
  LET category == Lookup(ClassifyTable, userText)
      modelList == V5_getModelList(category, conf)
      primaryModel == First(modelList)
  IN
  IF category = "simple" THEN V5_Outcome(state, NoDirective, "simple")
  ELSE IF ~Truthy(primaryModel) THEN V5_Outcome(state, NoDirective, "noModel")
  ELSE IF state.currentModel = primaryModel
    THEN V5_Outcome(state, NoDirective, "sameModel")
  ELSE V5_Outcome(V5_MakeSuggestion(state, category, modelList),
                  buildSuggestionInjection(category, primaryModel, Rest(modelList)),
                  "suggest")

\* "Handle pending approval"
V5_pendingBranch(state, userText) ==
  IF Lookup(ApprovesTable, userText) THEN
    V5_Outcome(V5_ApproveSuggestion(state),
               V5_buildSwitchInjection(
                 state.suggestedCategory, state.suggestedModel,
                 IF TruthyText(state.suggestedFallbacks)
                 THEN state.suggestedFallbacks ELSE <<>>),
               "approve")
  ELSE IF Lookup(OverridesTable, userText) THEN
    V5_Outcome(V5_OverrideSuggestion(state), NoDirective, "override")
  ELSE V5_Outcome(state, NoDirective, "waiting")

\* before_agent_start, run on the object getState returned
V5_beforeAgentStart(state, ev, conf) ==
  LET userText == ExtractUserText(ev) IN
  IF state.needsReturnAnnouncement THEN
    V5_Outcome(V5_ReturnToDefault(state), V5_buildReturnToDefaultInjection, "return")
  ELSE IF state.pendingApproval /\ Truthy(state.suggestedModel) THEN
    V5_pendingBranch(state, userText)
  ELSE V5_classifyBranch(state, userText, conf)

\* the writes of the completion branch
V5_QueueReturn(state) ==
  [state EXCEPT !.currentModel = Null, !.needsReturnAnnouncement = TRUE]

V5_ToolNames == {"complete-tasks", "exec", "read"}

\* after_tool_call: the map it leaves and the return reached; getState is not
\* reached for another tool
V5_afterToolCall(states, sessionKey, toolName) ==
  IF toolName # "complete-tasks" THEN [states |-> states, branch |-> "otherTool"]
  ELSE LET got == V5_getState(states, sessionKey) IN
       IF got[sessionKey].currentModel # Null
       THEN [states |-> PutState(got, sessionKey, V5_QueueReturn(got[sessionKey])),
             branch |-> "queue"]
       ELSE [states |-> got, branch |-> "onDefault"]

InitV5 ==
  /\ sessionStates = [k \in {} |-> V5_InitialState]
  /\ ledger = <<>>
  /\ beadsCreated = 0
  /\ cfg \in { V5_RegisterConfig(raw) : raw \in V5_PluginConfigs }
  /\ event = [hook |-> "register"]
  /\ result = NoDirective
  /\ openSuggestion = [k \in SessionKeys |-> Undefined]
  /\ pending = NoCalls
  /\ active = NoSessions

V5_BeforeAgentStart(ctx, ev) ==
  LET sessionKey == SessionKeyOf(ctx)
      states == V5_getState(sessionStates, sessionKey)
      out == V5_beforeAgentStart(states[sessionKey], ev, cfg)
  IN /\ sessionStates' = PutState(states, sessionKey, out.state)
     /\ event' = [hook |-> "before_agent_start", sessionKey |-> sessionKey,
                  userText |-> ExtractUserText(ev), branch |-> out.branch]
     /\ result' = out.result
     /\ UNCHANGED <<ledger, beadsCreated, cfg, openSuggestion, active, pending>>

V5_AfterToolCall(ctx, toolName) ==
  LET sessionKey == SessionKeyOf(ctx)
      out == V5_afterToolCall(sessionStates, sessionKey, toolName)
  IN
  /\ sessionStates' = out.states
  /\ event' = [hook |-> "after_tool_call", sessionKey |-> sessionKey,
               toolName |-> toolName, branch |-> out.branch]
  /\ result' = NoDirective
  /\ UNCHANGED <<ledger, beadsCreated, cfg, openSuggestion, active, pending>>

V5_SessionEnd(ctx) ==
  /\ sessionStates' = sessionEnd(sessionStates, ctx)
  /\ event' = [hook |-> "session_end", sessionId |-> ctx.sessionId]
  /\ result' = NoDirective
  /\ UNCHANGED <<ledger, beadsCreated, cfg, openSuggestion, active, pending>>

NextV5 ==
  \/ \E ctx \in HookContexts, ev \in TurnEvents : V5_BeforeAgentStart(ctx, ev)
  \/ \E ctx \in HookContexts, toolName \in V5_ToolNames : V5_AfterToolCall(ctx, toolName)
  \/ \E ctx \in SessionEndContexts : V5_SessionEnd(ctx)

SpecV5 == InitV5 /\ [][NextV5]_vars

----------------------------------------------------------------------------
(* Properties of the v5 router *)

\* the SessionState a v5 hook called for sessionKey k works on
V5_Before(k) == V5_getState(sessionStates, k)[k]

\* C11 as stated: in the v5 router a tool-call step leaves currentModel
\* unchanged, and currentModel becomes the default only in a turn start that
\* emits the revert directive.
C11_ModelChangeDeferred ==
  [][ \A k \in DOMAIN sessionStates' :
        /\ ToolCall(k) => After(k).currentModel = V5_Before(k).currentModel
        /\ (After(k).currentModel = Null /\ V5_Before(k).currentModel # Null)
             => (TurnStart(k) /\ result'.kind = "revert") ]_vars

\* C12 as stated: a complete-tasks call observed while currentModel is not the
\* default arms the revert; one observed while on the default arms nothing and
\* changes no state, and the turn start that follows it emits no revert
\* directive.
C12_UntrackedCompletion ==
  [][ \A k \in SessionKeys :
        /\ (ToolCall(k) /\ event'.toolName = "complete-tasks")
             => IF V5_Before(k).currentModel # Null
                THEN After(k).needsReturnAnnouncement
                ELSE After(k) = V5_Before(k)
        /\ ( /\ event.hook = "after_tool_call"
             /\ event.sessionKey = k
             /\ event.branch = "onDefault"
             /\ TurnStart(k) )
           => result'.kind # "revert" ]_vars


----------------------------------------------------------------------------
(***************************************************************************)
(* The v3 plugin with collaboration mode (src/unnamed/part_001): task      *)
(* categories simple / planning / complex / coding, model announcements    *)
(* read from the conversation, the fallback cascade on rate-limit errors,  *)
(* and completion through the beads_close tool.  This version searches     *)
(* session keys and normalises model identifiers, so both are texts here.  *)
(***************************************************************************)

V3_Categories == {"simple", "planning", "complex", "coding"}

V3_CODING_SIGNALS ==
  { <<"U+0060","U+0060","U+0060">>,
    <<"w","r","i","t","e"," ","c","o","d","e">>,
    <<"w","r","i","t","e"," ","a"," ","s","c","r","i","p","t">>,
    <<"b","u","i","l","d"," ","a"," ","s","c","r","i","p","t">>,
    <<"c","r","e","a","t","e"," ","a"," ","s","c","r","i","p","t">>,
    <<"w","r","i","t","e"," ","a"," ","f","u","n","c","t","i","o","n">>,
    <<"d","e","b","u","g">>,
    <<"f","i","x"," ","t","h","i","s"," ","c","o","d","e">>,
    <<"r","e","f","a","c","t","o","r">>,
    <<"i","m","p","l","e","m","e","n","t">>,
    <<"t","y","p","e","s","c","r","i","p","t">>,
    <<"j","a","v","a","s","c","r","i","p","t">>,
    <<"p","y","t","h","o","n">>,
    <<"b","a","s","h">>,
    <<"s","q","l">>,
    <<"a","p","i"," ","e","n","d","p","o","i","n","t">>,
    <<"u","n","i","t"," ","t","e","s","t">>,
    <<"p","u","l","l"," ","r","e","q","u","e","s","t">>,
    <<"s","t","a","c","k"," ","t","r","a","c","e">>,
    <<"e","r","r","o","r",":">>,
    <<"e","x","c","e","p","t","i","o","n">>,
    <<"i","n","d","e","x",".","t","s">>,
    <<"p","l","u","g","i","n">> }

V3_COMPLEX_SIGNALS ==
  { <<"o","r","c","h","e","s","t","r","a","t">>,
    <<"c","o","o","r","d","i","n","a","t","e">>,
    <<"m","u","l","t","i","-","a","g","e","n","t">>,
    <<"s","u","b","-","a","g","e","n","t">>,
    <<"s","p","a","w","n">>,
    <<"d","e","l","e","g","a","t","e">>,
    <<"a","r","c","h","i","t","e","c","t">>,
    <<"s","y","s","t","e","m"," ","d","e","s","i","g","n">>,
    <<"e","n","d","-","t","o","-","e","n","d">>,
    <<"m","i","g","r","a","t","e">>,
    <<"r","o","l","l","o","u","t">>,
    <<"s","e","c","u","r","i","t","y"," ","r","e","v","i","e","w">>,
    <<"a","u","d","i","t">>,
    <<"c","o","l","l","a","b","o","r","a","t","e">>,
    <<"w","o","r","k"," ","t","o","g","e","t","h","e","r">> }

V3_PLANNING_SIGNALS ==
  { <<"d","e","s","i","g","n">>,
    <<"p","l","a","n">>,
    <<"s","t","r","a","t","e","g","y">>,
    <<"r","o","a","d","m","a","p">>,
    <<"r","e","s","e","a","r","c","h">>,
    <<"a","n","a","l","y","z","e">>,
    <<"e","v","a","l","u","a","t","e">>,
    <<"c","o","m","p","a","r","e">>,
    <<"r","e","c","o","m","m","e","n","d">>,
    <<"p","r","o","p","o","s","a","l">>,
    <<"r","f","c">>,
    <<"s","p","e","c">>,
    <<"r","e","q","u","i","r","e","m","e","n","t","s">>,
    <<"r","e","f","i","n","e">>,
    <<"o","p","t","i","m","i","z","e">> }

V3_RATE_LIMIT_SIGNALS ==
  { <<"q","u","o","t","a">>,
    <<"i","n","s","u","f","f","i","c","i","e","n","t","_","q","u","o","t","a">>,
    <<"c","a","p","a","c","i","t","y">>,
    <<"r","a","t","e"," ","l","i","m","i","t">>,
    <<"4","2","9">>,
    <<"e","x","h","a","u","s","t","e","d">>,
    <<"r","e","s","o","u","r","c","e","_","e","x","h","a","u","s","t","e","d">>,
    <<"o","v","e","r","l","o","a","d","e","d">>,
    <<"l","i","m","i","t"," ","r","e","a","c","h","e","d">> }

\* first matching list wins: coding, complex, planning, else simple
V3_classifyTask(text) ==
  LET t == toLowerCase(text) IN
  IF someIncluded(V3_CODING_SIGNALS, t) THEN "coding"
  ELSE IF someIncluded(V3_COMPLEX_SIGNALS, t) THEN "complex"
  ELSE IF someIncluded(V3_PLANNING_SIGNALS, t) THEN "planning"
  ELSE "simple"

\* String.prototype.trim
trim(text) ==
  IF \A i \in DOMAIN text : text[i] \in WhiteSpace
  THEN <<>>
  ELSE LET first == CHOOSE i \in DOMAIN text :
                      /\ text[i] \notin WhiteSpace
                      /\ \A j \in 1..(i - 1) : text[j] \in WhiteSpace
           last == CHOOSE i \in DOMAIN text :
                     /\ text[i] \notin WhiteSpace
                     /\ \A j \in (i + 1)..Len(text) : text[j] \in WhiteSpace
       IN [i \in 1..(last - first + 1) |-> text[first + i - 1]]

V3_approvalTriggers ==
  { <<"g","o"," ","a","h","e","a","d">>, <<"p","r","o","c","e","e","d">>, <<"d","o"," ","i","t">>, <<"g","r","e","e","n"," ","l","i","g","h","t">>, <<"a","p","p","r","o","v","e","d">>,
    <<"y","e","s">>, <<"y","e","a","h">>, <<"y","e","p">>, <<"l","o","o","k","s"," ","g","o","o","d">>, <<"l","g","t","m">>, <<"s","h","i","p"," ","i","t">>,
    <<"b","u","i","l","d"," ","i","t">>, <<"e","x","e","c","u","t","e">>, <<"s","t","a","r","t">>, <<"b","e","g","i","n">> }

V3_overrideTriggers ==
  { <<"s","t","i","c","k"," ","w","i","t","h"," ","f","l","a","s","h">>, <<"s","t","a","y"," ","o","n"," ","f","l","a","s","h">>, <<"k","e","e","p"," ","f","l","a","s","h">>, <<"u","s","e"," ","f","l","a","s","h">>,
    <<"j","u","s","t"," ","u","s","e"," ","f","l","a","s","h">>, <<"f","l","a","s","h"," ","i","s"," ","f","i","n","e">>, <<"n","o"," ","s","w","i","t","c","h">>, <<"d","o","n","'","t"," ","s","w","i","t","c","h">> }

V3_modelComplements ==
  { <<<<"o","p","u","s">>, <<"g","e","m","i","n","i","-","p","r","o">>>>,
    <<<<"g","e","m","i","n","i","-","p","r","o">>, <<"o","p","u","s">>>>,
    <<<<"g","p","t">>, <<"o","p","u","s">>>>,
    <<<<"o","p","u","s","-","4","-","5">>, <<"g","e","m","i","n","i","-","p","r","o">>>>,
    <<<<"g","e","m","i","n","i","-","3","-","p","r","o">>, <<"o","p","u","s">>>> }

V3_COLLABORATION_CHANNEL_ID == <<"1","4","6","8","4","0","2","8","1","4","1","0","6","4","6","8","4","0","2">>

V3_DEFAULT_CONFIG ==
  [ enabled |-> TRUE,
    announceSwitch |-> TRUE,
    defaultModel |-> <<"g","e","m","i","n","i","-","f","l","a","s","h">>,
    collaborationAutoSwitch |-> TRUE,
    models |->
      [ simple |-> << <<"g","e","m","i","n","i","-","f","l","a","s","h">>, <<"s","o","n","n","e","t","-","4","-","5">>, <<"h","a","i","k","u","-","4","-","5">> >>,
        planning |-> << <<"g","e","m","i","n","i","-","p","r","o">>, <<"o","p","u","s">> >>,
        complex |-> << <<"o","p","u","s">>, <<"g","e","m","i","n","i","-","p","r","o">> >>,
        coding |-> << <<"g","p","t">>, <<"o","p","u","s">>, <<"g","e","m","i","n","i","-","p","r","o">> >> ],
    approvalTriggers |-> V3_approvalTriggers,
    overrideTriggers |-> V3_overrideTriggers,
    collaborationChannel |-> <<>>,
    agentId |-> <<>>,
    modelComplements |-> V3_modelComplements,
    fallbackChain |-> << <<"s","o","n","n","e","t","-","4","-","5">>, <<"h","a","i","k","u","-","4","-","5">>, <<"g","e","m","i","n","i","-","f","l","a","s","h">> >> ]

\* isApproval / isOverride: a trigger is a substring of the trimmed, lowercased text
V3_isApproval(text, conf) == someIncluded(conf.approvalTriggers, trim(toLowerCase(text)))
V3_isOverride(text, conf) == someIncluded(conf.overrideTriggers, trim(toLowerCase(text)))

\* the decimal digits of a natural number
RECURSIVE DecimalText(_)
DecimalText(n) ==
  IF n < 10 THEN <<DigitChars[n + 1]>>
  ELSE DecimalText(n \div 10) \o <<DigitChars[(n % 10) + 1]>>

\* tool errors: nothing, a string, or an object { status, message }
NoError == [type |-> "undefined"]
StringError(text) == [type |-> "string", text |-> text]
ObjectError(status, message) == [type |-> "object", status |-> status, message |-> message]

\* JSON.stringify of an error object
JSONstringify(error) ==
  <<"{","\"","s","t","a","t","u","s","\"",":">> \o DecimalText(error.status)
    \o <<",","\"","m","e","s","s","a","g","e","\"",":","\"">> \o error.message \o <<"\"","}">>

isRateLimitError(error) ==
  IF error.type = "undefined" \/ (error.type = "string" /\ error.text = <<>>)
  THEN FALSE
  ELSE LET errorStr == IF error.type = "string"
                       THEN toLowerCase(error.text)
                       ELSE toLowerCase(JSONstringify(error))
       IN \/ (error.type = "object" /\ error.status = 429)
          \/ includes(errorStr, <<"4","2","9">>)
          \/ someIncluded(V3_RATE_LIMIT_SIGNALS, errorStr)

\* getPrimaryModel: the first entry of the category's list (undefined when it is empty)
V3_ModelsOf(models, category) ==
  CASE category = "simple" -> models.simple
    [] category = "planning" -> models.planning
    [] category = "complex" -> models.complex
    [] category = "coding" -> models.coding

\* cfg.models?.[category] ?? DEFAULT_CONFIG.models[category]
V3_CategoryModels(category, conf) ==
  Coalesce(V3_ModelsOf(conf.models, category), V3_ModelsOf(V3_DEFAULT_CONFIG.models, category))

V3_getPrimaryModel(category, conf) ==
  LET categoryModels == V3_CategoryModels(category, conf) IN
  IF categoryModels = <<>> THEN UndefinedText ELSE categoryModels[1]

\* what every object literal inherits from Object.prototype: functions, and
\* the prototype object itself under __proto__; none of them is a string
ObjectPrototype ==
  { <<<<"c","o","n","s","t","r","u","c","t","o","r">>, <<"function Object">>>>,
    <<<<"t","o","S","t","r","i","n","g">>, <<"function toString">>>>,
    <<<<"t","o","L","o","c","a","l","e","S","t","r","i","n","g">>, <<"function toLocaleString">>>>,
    <<<<"v","a","l","u","e","O","f">>, <<"function valueOf">>>>,
    <<<<"h","a","s","O","w","n","P","r","o","p","e","r","t","y">>, <<"function hasOwnProperty">>>>,
    <<<<"i","s","P","r","o","t","o","t","y","p","e","O","f">>, <<"function isPrototypeOf">>>>,
    <<<<"p","r","o","p","e","r","t","y","I","s","E","n","u","m","e","r","a","b","l","e">>, <<"function propertyIsEnumerable">>>>,
    <<<<"_","_","p","r","o","t","o","_","_">>, <<"object Object.prototype">>>> }

\* object[key] on an object literal: own property, else inherited, else undefined
GetProperty(object, key) ==
  IF \E p \in object : p[1] = key THEN Lookup(object, key)
  ELSE IF \E p \in ObjectPrototype : p[1] = key THEN Lookup(ObjectPrototype, key)
  ELSE UndefinedText

V3_aliases ==
  { <<<<"o","p","u","s">>, <<"o","p","u","s">>>>,
    <<<<"o","p","u","s","-","4","-","5">>, <<"o","p","u","s">>>>,
    <<<<"c","l","a","u","d","e","-","o","p","u","s","-","4","-","5">>, <<"o","p","u","s">>>>,
    <<<<"g","e","m","i","n","i","-","p","r","o">>, <<"g","e","m","i","n","i","-","p","r","o">>>>,
    <<<<"g","e","m","i","n","i","-","3","-","p","r","o">>, <<"g","e","m","i","n","i","-","p","r","o">>>>,
    <<<<"g","p","t">>, <<"g","p","t">>>>,
    <<<<"g","p","t","-","5","-","2">>, <<"g","p","t">>>> }

\* model.toLowerCase().replace(/[^a-z0-9]/g, "-")
NormalizeModel(model) ==
  [i \in 1..Len(model) |->
     IF LowerChar(model[i]) \in Range(LowerLetters) \cup Range(DigitChars)
     THEN LowerChar(model[i]) ELSE "-"]

V3_getComplementModel(model, complements) ==
  LET normalized == NormalizeModel(model)
      direct == GetProperty(complements, model)
      byNormalized == GetProperty(complements, normalized)
      aliasKey == IF TruthyText(GetProperty(V3_aliases, normalized))
                  THEN GetProperty(V3_aliases, normalized)
                  ELSE GetProperty(V3_aliases, model)
  IN IF TruthyText(direct) THEN direct
     ELSE IF TruthyText(byNormalized) THEN byNormalized
     ELSE IF TruthyText(aliasKey) /\ TruthyText(GetProperty(complements, aliasKey))
       THEN GetProperty(complements, aliasKey)
     ELSE IF includes(model, <<"o","p","u","s">>) \/ includes(model, <<"c","l","a","u","d","e">>) THEN <<"g","e","m","i","n","i","-","p","r","o">>
     ELSE <<"o","p","u","s">>

----------------------------------------------------------------------------
(* Model announcements *)

Megaphone == <<"U+1F4E2">>[1]
LineTerminators == {"\n", "\r"}

\* a literal of a case-insensitive pattern at position i (lit is lowercase)
LiteralAtCI(text, i, lit) ==
  /\ i >= 1
  /\ i + Len(lit) - 1 <= Len(text)
  /\ \A j \in 1..Len(lit) : LowerChar(text[i + j - 1]) = lit[j]

\* text[a..b] is white space: what \s* or \s+ consumed
Blank(text, a, b) == \A j \in a..b : text[j] \in WhiteSpace

\* (\S+) captures text[from..to]: the greedy run ends where white space or the text's end follows
Captures(text, from, to) ==
  /\ from <= to
  /\ \A j \in from..to : text[j] \notin WhiteSpace
  /\ to = Len(text) \/ text[to + 1] \in WhiteSpace

\* \s+for after the capture
ThenFor(text, to) ==
  \E f \in (to + 2)..Len(text) : Blank(text, to + 1, f - 1) /\ LiteralAtCI(text, f, <<"f","o","r">>)

\* MODEL_ANNOUNCEMENT_PATTERNS[pattern] matches from position i on and captures text[from..to]
AnnouncementMatchAt(pattern, text, i, from, to) ==
  CASE pattern = 1 ->
         \* /📢\s*MODEL:\s*(\S+)/i
         /\ text[i] = Megaphone
         /\ \E m \in (i + 1)..Len(text) :
              /\ Blank(text, i + 1, m - 1)
              /\ LiteralAtCI(text, m, <<"m","o","d","e","l",":">>)
              /\ from >= m + 6
              /\ Blank(text, m + 6, from - 1)
         /\ Captures(text, from, to)
    [] pattern = 2 ->
         \* /📢\s*Model announcement:.*?(\S+)\s+for/i
         /\ text[i] = Megaphone
         /\ \E m \in (i + 1)..Len(text) :
              /\ Blank(text, i + 1, m - 1)
              /\ LiteralAtCI(text, m, <<"m","o","d","e","l"," ","a","n","n","o","u","n","c","e","m","e","n","t",":">>)
              /\ from >= m + 19
              /\ \A j \in (m + 19)..(from - 1) : text[j] \notin LineTerminators
         /\ Captures(text, from, to)
         /\ ThenFor(text, to)
    [] pattern = 3 ->
         \* /Switching to\s+(\S+)\s+for/i
         /\ LiteralAtCI(text, i, <<"s","w","i","t","c","h","i","n","g"," ","t","o">>)
         /\ from > i + 12
         /\ Blank(text, i + 12, from - 1)
         /\ Captures(text, from, to)
         /\ ThenFor(text, to)
    [] pattern = 4 ->
         \* /switched to\s+(\S+)/i
         /\ LiteralAtCI(text, i, <<"s","w","i","t","c","h","e","d"," ","t","o">>)
         /\ from > i + 11
         /\ Blank(text, i + 11, from - 1)
         /\ Captures(text, from, to)
    [] pattern = 5 ->
         \* /now on\s+(\S+)/i
         /\ LiteralAtCI(text, i, <<"n","o","w"," ","o","n">>)
         /\ from > i + 6
         /\ Blank(text, i + 6, from - 1)
         /\ Captures(text, from, to)

\* every way a pattern matches the text: <<pattern, i, from, to>>
AnnouncementMatches(text) ==
  { h \in (1..5) \X (DOMAIN text) \X (DOMAIN text) \X (DOMAIN text) :
      AnnouncementMatchAt(h[1], text, h[2], h[3], h[4]) }

\* the match the engine reports: the first pattern that matches, at its leftmost
\* position, with the shortest lazy gap
Earlier(h, g) ==
  \/ h[1] < g[1]
  \/ h[1] = g[1] /\ h[2] < g[2]
  \/ h[1] = g[1] /\ h[2] = g[2] /\ h[3] <= g[3]

\* .replace(/[*_`]/g, "")
RECURSIVE StripMarkup(_)
StripMarkup(text) ==
  IF text = <<>> THEN <<>>
  ELSE IF Head(text) \in {"*", "_", "U+0060"} THEN StripMarkup(Tail(text))
  ELSE <<Head(text)>> \o StripMarkup(Tail(text))

\* match[1].toLowerCase().replace(...) of the first pattern that matches; null when none does
extractAnnouncedModel(text) ==
  LET Announced(found) ==
        IF found = {} THEN NullText
        ELSE LET match == CHOOSE h \in found : \A g \in found : Earlier(h, g)
             IN StripMarkup(toLowerCase(SubSeq(text, match[3], match[4])))
  IN CHOOSE model \in { Announced(found) : found \in {AnnouncementMatches(text)} } : TRUE

\* cfg.collaborationChannel is set and is a substring of the session key
isInCollaborationChannel(sessionKey, conf) ==
  /\ conf.collaborationChannel # <<>>
  /\ includes(sessionKey, conf.collaborationChannel)

----------------------------------------------------------------------------
(* v3 configuration, session state and host events *)

\* api.pluginConfig: the keys it carries and their values
V3_PluginConfigs ==
  { [ keys |-> {} ],
    [ keys |-> {"models"},
      models |-> [ simple |-> UndefinedText, planning |-> UndefinedText,
                   complex |-> << <<"o","p","u","s">>, <<"g","e","m","i","n","i","-","p","r","o">>, <<"o","p","u","s">> >>,
                   coding |-> UndefinedText ] ],
    [ keys |-> {"collaborationChannel", "collaborationAutoSwitch"},
      collaborationChannel |-> V3_COLLABORATION_CHANNEL_ID,
      collaborationAutoSwitch |-> FALSE ] }

\* { ...DEFAULT_CONFIG, ...api.pluginConfig }
V3_RegisterConfig(pluginConfig) ==
  [ V3_DEFAULT_CONFIG EXCEPT
      !.models = IF "models" \in pluginConfig.keys THEN pluginConfig.models ELSE @,
      !.collaborationChannel =
         IF "collaborationChannel" \in pluginConfig.keys
         THEN pluginConfig.collaborationChannel ELSE @,
      !.collaborationAutoSwitch =
         IF "collaborationAutoSwitch" \in pluginConfig.keys
         THEN pluginConfig.collaborationAutoSwitch ELSE @ ]

V3_InitialState(defaultModel) ==
  [ currentModel |-> defaultModel,
    pendingApproval |-> FALSE,
    suggestedModel |-> UndefinedText,
    suggestedCategory |-> Undefined,
    lastAnnouncedModel |-> UndefinedText ]

\* sessionStates after getState(sessionKey, defaultModel)
V3_getState(states, sessionKey, defaultModel) ==
  IF sessionKey \in DOMAIN states
  THEN states
  ELSE [k \in DOMAIN states \cup {sessionKey} |->
          IF k = sessionKey THEN V3_InitialState(defaultModel) ELSE states[k]]

V3_ChannelKey == <<"d","i","s","c","o","r","d",":","c","h","a","n","n","e","l",":","1","4","6","8","4","0","2","8","1","4","1","0","6","4","6","8","4","0","2">>
V3_SessionKeys == { V3_ChannelKey, <<"u","n","k","n","o","w","n">> }
V3_HookContexts == { [sessionKey |-> V3_ChannelKey], [sessionKey |-> UndefinedText] }
V3_SessionEndContexts ==
  { [sessionId |-> V3_ChannelKey], [sessionId |-> <<"7","f","3","a">>], [sessionId |-> UndefinedText] }

\* ctx.sessionKey ?? "unknown"
V3_SessionKeyOf(ctx) ==
  IF ctx.sessionKey = UndefinedText THEN <<"u","n","k","n","o","w","n">> ELSE ctx.sessionKey

V3_UserTexts ==
  { <<"h","e","l","l","o"," ","t","h","e","r","e">>,
    <<"g","o"," ","a","h","e","a","d">>,
    <<"s","t","a","y"," ","o","n"," ","f","l","a","s","h",","," ","g","o"," ","a","h","e","a","d">>,
    <<"p","l","a","n"," ","t","h","e"," ","r","o","a","d","m","a","p">>,
    <<"c","o","o","r","d","i","n","a","t","e"," ","t","h","e"," ","r","o","l","l","o","u","t">>,
    <<"r","e","f","a","c","t","o","r"," ","t","h","e"," ","p","a","r","s","e","r">> }

\* turns without a history, and two turns of a shared channel whose history
\* carries announcements of a peer and of the agent itself
V3_TurnEvents ==
  { [prompt |-> p, hasMessages |-> FALSE, messages |-> <<>>] : p \in V3_UserTexts }
  \cup
  { [prompt |-> <<"p","l","a","n"," ","t","h","e"," ","r","o","a","d","m","a","p">>, hasMessages |-> TRUE,
     messages |-> << Message("user", <<"U+1F4E2"," ","M","O","D","E","L",":"," ","*","*","G","e","m","i","n","i","-","P","r","o","*","*"," ","f","o","r"," ","p","l","a","n","n","i","n","g">>),
                     Message("assistant", <<"U+1F4E2"," ","M","O","D","E","L",":"," ","o","p","u","s">>),
                     Message("user", <<"p","l","a","n"," ","t","h","e"," ","r","o","a","d","m","a","p">>) >>],
    [prompt |-> <<"c","o","o","r","d","i","n","a","t","e"," ","t","h","e"," ","r","o","l","l","o","u","t">>, hasMessages |-> TRUE,
     messages |-> << Message("system", <<"S","w","i","t","c","h","i","n","g"," ","t","o"," ","o","p","u","s"," ","f","o","r"," ","r","e","v","i","e","w">>),
                     Message("user", <<"c","o","o","r","d","i","n","a","t","e"," ","t","h","e"," ","r","o","l","l","o","u","t">>) >>] }

V3_MessageTexts ==
  UNION { { ev.messages[i].content : i \in DOMAIN ev.messages } : ev \in V3_TurnEvents }

V3_ApprovesTable == { <<x, V3_isApproval(x, V3_DEFAULT_CONFIG)>> : x \in V3_UserTexts }
V3_OverridesTable == { <<x, V3_isOverride(x, V3_DEFAULT_CONFIG)>> : x \in V3_UserTexts }
V3_ClassifyTable == { <<x, V3_classifyTask(x)>> : x \in V3_UserTexts }
AnnouncedTable == { <<x, extractAnnouncedModel(x)>> : x \in V3_MessageTexts }

\* how many trailing messages scanForOtherAgentModel reads
ScanWindow == 20

\* the newest non-assistant message of the window that announces a model
scanForOtherAgentModel(ev) ==
  IF ~ev.hasMessages THEN NullText
  ELSE LET msgs == ev.messages
           first == IF Len(msgs) > ScanWindow THEN Len(msgs) - ScanWindow + 1 ELSE 1
           Announces(i) == /\ msgs[i].role # "assistant"
                           /\ TruthyText(Lookup(AnnouncedTable, msgs[i].content))
       IN IF \E i \in first..Len(msgs) : Announces(i)
          THEN Lookup(AnnouncedTable,
                 msgs[CHOOSE i \in first..Len(msgs) :
                        Announces(i) /\ \A j \in (i + 1)..Len(msgs) : ~Announces(j)].content)
          ELSE NullText

V3_ToolNames == {"exec", "beads_close"}
V3_ToolErrors ==
  { NoError,
    StringError(<<"4","2","9"," ","T","o","o"," ","M","a","n","y"," ","R","e","q","u","e","s","t","s">>),
    StringError(<<"E","N","O","E","N","T",":"," ","n","o"," ","s","u","c","h"," ","f","i","l","e">>),
    ObjectError(503, <<"M","o","d","e","l"," ","o","v","e","r","l","o","a","d","e","d">>) }
V3_ToolCalls == { [toolName |-> t, error |-> e] : t \in V3_ToolNames, e \in V3_ToolErrors }
RateLimitTable == { <<e, isRateLimitError(e)>> : e \in V3_ToolErrors }

----------------------------------------------------------------------------
(* v3 hooks *)

V3_buildSuggestionInjection(category, model) ==
  [kind |-> "suggest", category |-> category, model |-> model]
V3_buildCollabSuggestionInjection(category, model, otherAgentModel, isComplement) ==
  [kind |-> "suggest", category |-> category, model |-> model,
   otherAgentModel |-> otherAgentModel, isComplement |-> isComplement]
V3_buildSwitchInjection(model, category) ==
  [kind |-> "switch", model |-> model, category |-> category]
V3_FallbackDirective(toolName, fallbackModel) ==
  [kind |-> "fallback", toolName |-> toolName, model |-> fallbackModel, retry |-> TRUE]

V3_Outcome(state, res, branch) == [state |-> state, result |-> res, branch |-> branch]

\* the writes of the override branch
V3_OverrideSuggestion(state) ==
  [state EXCEPT !.pendingApproval = FALSE,
                !.suggestedModel = UndefinedText,
                !.suggestedCategory = Undefined]

\* the writes of the approval branch
V3_ApproveSuggestion(state) ==
  [state EXCEPT !.currentModel = state.suggestedModel,
                !.lastAnnouncedModel = state.suggestedModel,
                !.pendingApproval = FALSE,
                !.suggestedModel = UndefinedText,
                !.suggestedCategory = Undefined]

\* the model to suggest: the category's primary, or in collaboration mode the
\* complement of the model a peer announced
V3_SuggestedModel(sessionKey, ev, category, conf) ==
  LET primary == V3_getPrimaryModel(category, conf)
      otherAgentModel == IF isInCollaborationChannel(sessionKey, conf)
                         THEN scanForOtherAgentModel(ev) ELSE NullText
      complement == V3_getComplementModel(otherAgentModel, conf.modelComplements)
      isComplement == TruthyText(otherAgentModel) /\ complement # primary
  IN [ model |-> IF isComplement THEN complement ELSE primary,
       otherAgentModel |-> otherAgentModel,
       isComplement |-> isComplement ]

V3_beforeAgentStart(state, sessionKey, ev, conf) ==
  LET userText == ExtractUserText(ev)
      category == Lookup(V3_ClassifyTable, userText)
      suggested == V3_SuggestedModel(sessionKey, ev, category, conf)
  IN
  IF state.pendingApproval /\ Lookup(V3_OverridesTable, userText) THEN
    V3_Outcome(V3_OverrideSuggestion(state), NoDirective, "override")
  ELSE IF /\ state.pendingApproval
          /\ TruthyText(state.suggestedModel)
          /\ Lookup(V3_ApprovesTable, userText) THEN
    V3_Outcome(V3_ApproveSuggestion(state),
               V3_buildSwitchInjection(state.suggestedModel, state.suggestedCategory),
               "approve")
  ELSE IF category = "simple" THEN
    V3_Outcome(state, NoDirective, "simple")
  ELSE IF state.currentModel = suggested.model \/ state.pendingApproval THEN
    V3_Outcome(state, NoDirective, "noResuggest")
  ELSE IF conf.collaborationAutoSwitch /\ includes(sessionKey, V3_COLLABORATION_CHANNEL_ID) THEN
    V3_Outcome([state EXCEPT !.currentModel = suggested.model],
               V3_buildSwitchInjection(suggested.model, Undefined),
               "autoSwitch")
  ELSE
    V3_Outcome([state EXCEPT !.suggestedModel = suggested.model,
                             !.suggestedCategory = category,
                             !.pendingApproval = TRUE],
               IF isInCollaborationChannel(sessionKey, conf)
               THEN V3_buildCollabSuggestionInjection(category, suggested.model,
                      suggested.otherAgentModel, suggested.isComplement)
               ELSE V3_buildSuggestionInjection(category, suggested.model),
               "suggest")

\* models.indexOf(model): zero-based, -1 when absent
indexOf(models, model) ==
  IF \E i \in DOMAIN models : models[i] = model
  THEN (CHOOSE i \in DOMAIN models :
          models[i] = model /\ \A j \in 1..(i - 1) : models[j] # model) - 1
  ELSE -1

\* the list the cascade steps through: that of state.suggestedCategory ?? "complex"
V3_CascadeModels(state, conf) ==
  V3_CategoryModels(IF state.suggestedCategory = Undefined THEN "complex"
                    ELSE state.suggestedCategory, conf)

\* the fallback step is taken: a rate-limit error and a next entry in the list
V3_FallsBack(state, call, conf) ==
  LET models == V3_CascadeModels(state, conf)
      nextIndex == indexOf(models, state.currentModel) + 1
  IN /\ Lookup(RateLimitTable, call.error)
     /\ Len(models) > 1
     /\ nextIndex > 0
     /\ nextIndex < Len(models)

\* a cascade that starts over at the primary entry
V3_FallbackModel_primary(state, conf) == V3_CascadeModels(state, conf)[1]

\* models[nextIndex]
V3_FallbackModel(state, conf) ==
  LET models == V3_CascadeModels(state, conf)
  IN models[indexOf(models, state.currentModel) + 2]

\* the writes of the beads_close branch
V3_BeadClosed(state, conf) ==
  IF state.currentModel # conf.defaultModel
  THEN [state EXCEPT !.currentModel = conf.defaultModel,
                     !.lastAnnouncedModel = UndefinedText]
  ELSE state

\* an exhausted cascade that gives up the upgrade
V3_afterToolCall_exhaustedToDefault(state, call, conf) ==
  IF V3_FallsBack(state, call, conf) THEN
    V3_Outcome([state EXCEPT !.currentModel = V3_FallbackModel(state, conf)],
               V3_FallbackDirective(call.toolName, V3_FallbackModel(state, conf)),
               "fallback")
  ELSE IF Lookup(RateLimitTable, call.error) THEN
    V3_Outcome([state EXCEPT !.currentModel = conf.defaultModel], NoDirective, "otherTool")
  ELSE IF call.toolName # "beads_close" THEN
    V3_Outcome(state, NoDirective, "otherTool")
  ELSE
    V3_Outcome(V3_BeadClosed(state, conf), NoDirective, "beadClosed")

V3_afterToolCall(state, call, conf) ==
  IF V3_FallsBack(state, call, conf) THEN
    V3_Outcome([state EXCEPT !.currentModel = V3_FallbackModel(state, conf)],
               V3_FallbackDirective(call.toolName, V3_FallbackModel(state, conf)),
               "fallback")
  ELSE IF call.toolName # "beads_close" THEN
    V3_Outcome(state, NoDirective, "otherTool")
  ELSE
    V3_Outcome(V3_BeadClosed(state, conf), NoDirective, "beadClosed")

\* sessionStates.delete(ctx.sessionId) when the id is truthy
V3_sessionEnd(states, ctx) ==
  IF TruthyText(ctx.sessionId) THEN DeleteState(states, ctx.sessionId) ELSE states

----------------------------------------------------------------------------
(* v3 specification *)

InitV3 ==
  /\ sessionStates = [k \in {} |-> V3_InitialState(V3_DEFAULT_CONFIG.defaultModel)]
  /\ ledger = <<>>
  /\ beadsCreated = 0
  /\ cfg \in { V3_RegisterConfig(raw) : raw \in V3_PluginConfigs }
  /\ event = [hook |-> "register"]
  /\ result = NoDirective
  /\ openSuggestion = [k \in SessionKeys |-> Undefined]
  /\ pending = NoCalls
  /\ active = NoSessions

V3_BeforeAgentStart(ctx, ev) ==
  LET sessionKey == V3_SessionKeyOf(ctx)
      states == V3_getState(sessionStates, sessionKey, cfg.defaultModel)
      out == V3_beforeAgentStart(states[sessionKey], sessionKey, ev, cfg)
  IN /\ sessionStates' = PutState(states, sessionKey, out.state)
     /\ event' = [hook |-> "before_agent_start", sessionKey |-> sessionKey,
                  userText |-> ExtractUserText(ev),
                  otherAgentModel |->
                    IF isInCollaborationChannel(sessionKey, cfg)
                    THEN scanForOtherAgentModel(ev) ELSE NullText,
                  branch |-> out.branch]
     /\ result' = out.result
     /\ UNCHANGED <<ledger, beadsCreated, cfg, openSuggestion, active, pending>>

V3_AfterToolCall(ctx, call) ==
  LET sessionKey == V3_SessionKeyOf(ctx)
      states == V3_getState(sessionStates, sessionKey, cfg.defaultModel)
      out == V3_afterToolCall(states[sessionKey], call, cfg)
  IN /\ sessionStates' = PutState(states, sessionKey, out.state)
     /\ event' = [hook |-> "after_tool_call", sessionKey |-> sessionKey,
                  toolName |-> call.toolName, error |-> call.error,
                  branch |-> out.branch]
     /\ result' = out.result
     /\ UNCHANGED <<ledger, beadsCreated, cfg, openSuggestion, active, pending>>

V3_SessionEnd(ctx) ==
  /\ sessionStates' = V3_sessionEnd(sessionStates, ctx)
  /\ event' = [hook |-> "session_end", sessionId |-> ctx.sessionId]
  /\ result' = NoDirective
  /\ UNCHANGED <<ledger, beadsCreated, cfg, openSuggestion, active, pending>>

NextV3 ==
  \/ \E ctx \in V3_HookContexts, ev \in V3_TurnEvents : V3_BeforeAgentStart(ctx, ev)
  \/ \E ctx \in V3_HookContexts, call \in V3_ToolCalls : V3_AfterToolCall(ctx, call)
  \/ \E ctx \in V3_SessionEndContexts : V3_SessionEnd(ctx)

SpecV3 == InitV3 /\ [][NextV3]_vars

----------------------------------------------------------------------------
(* getComplementModel applied to every identifier of the bounded set *)

\* peer model identifiers: known models, aliases, unknown models and
\* property names every object has, bare and with a vendor prefix
IdentifierPrefixes == { <<>>, <<"c","l","a","u","d","e","-">>, <<"G","o","o","g","l","e","/">> }
IdentifierStems ==
  { <<"o","p","u","s">>, <<"O","p","u","s","-","4",".","5">>, <<"g","e","m","i","n","i","-","p","r","o">>, <<"g","e","m","i","n","i","_","3","_","p","r","o">>, <<"g","p","t">>, <<"g","p","t","-","5",".","2">>,
    <<"s","o","n","n","e","t">>, <<"l","l","a","m","a">>, <<"c","o","n","s","t","r","u","c","t","o","r">>, <<"t","o","S","t","r","i","n","g">> }
PeerIdentifiers == { p \o s : p \in IdentifierPrefixes, s \in IdentifierStems }

\* cfg.modelComplements: the default table, or one from the plugin configuration
ComplementTables ==
  { V3_modelComplements,
    { <<<<"o","p","u","s">>, <<"s","o","n","n","e","t","-","4","-","5">>>>, <<<<"l","l","a","m","a">>, <<>>>> } }

InitComplement ==
  /\ sessionStates = [k \in {} |-> V3_InitialState(V3_DEFAULT_CONFIG.defaultModel)]
  /\ ledger = <<>>
  /\ beadsCreated = 0
  /\ cfg = V3_RegisterConfig([keys |-> {}])
  /\ event \in { [hook |-> "complement", model |-> m, complements |-> t] :
                   m \in PeerIdentifiers, t \in ComplementTables }
  /\ result = NoDirective
  /\ openSuggestion = [k \in SessionKeys |-> Undefined]
  /\ pending = NoCalls
  /\ active = NoSessions

ComplementOf ==
  /\ result = NoDirective
  /\ result' = [kind |-> "complement",
                model |-> V3_getComplementModel(event.model, event.complements)]
  /\ UNCHANGED <<sessionStates, ledger, beadsCreated, cfg, event, openSuggestion, active, pending>>

NextComplement == ComplementOf

SpecComplement == InitComplement /\ [][NextComplement]_vars

----------------------------------------------------------------------------
(* Properties of the v3 router with collaboration mode *)

\* the SessionState a v3 hook called for sessionKey k works on
V3_Before(k) == V3_getState(sessionStates, k, cfg.defaultModel)[k]

\* the step observes a tool call of session k that failed with a rate-limit error
CapacityError(k) == ToolCall(k) /\ Lookup(RateLimitTable, event'.error)

\* the step is a fallback step of session k: it answers a tool call with a fallback directive
FallbackStep(k) == ToolCall(k) /\ result'.kind = "fallback"

\* C13 as stated: when the turn before approved a suggestion for category c
\* (the switch directive names c, currentModel is the first entry of c's list)
\* and that list has a next entry, a tool call that fails with a rate-limit
\* error sets currentModel to that next entry and returns a fallback directive
\* that names it and asks to retry.
C13_FallbackAfterApproval ==
  [][ \A k \in V3_SessionKeys :
        ( /\ event.hook = "before_agent_start"
          /\ event.sessionKey = k
          /\ event.branch = "approve"
          /\ CapacityError(k)
          /\ Len(V3_CategoryModels(result.category, cfg)) > 1
          /\ sessionStates[k].currentModel = V3_CategoryModels(result.category, cfg)[1] )
        => /\ After(k).currentModel = V3_CategoryModels(result.category, cfg)[2]
           /\ result' = V3_FallbackDirective(event'.toolName,
                          V3_CategoryModels(result.category, cfg)[2]) ]_vars

AtLastEntry(state, conf) ==
  /\ V3_CascadeModels(state, conf) # <<>>
  /\ indexOf(V3_CascadeModels(state, conf), state.currentModel)
       = Len(V3_CascadeModels(state, conf)) - 1

RemainingEntries(state, conf) ==
  Len(V3_CascadeModels(state, conf)) - 1
    - indexOf(V3_CascadeModels(state, conf), state.currentModel)

\* C16 as stated: every fallback step uses up one of the list entries that
\* remain after currentModel, so a run of rate-limit errors makes at most that
\* many switches; once none remains, a rate-limit error no longer changes the
\* model (other than through the completion of beads_close).
C16_CascadeAdvances ==
  [][ \A k \in DOMAIN sessionStates' :
        /\ FallbackStep(k) =>
             RemainingEntries(After(k), cfg) < RemainingEntries(V3_Before(k), cfg)
        /\ ( /\ CapacityError(k)
             /\ event'.toolName # "beads_close"
             /\ RemainingEntries(V3_Before(k), cfg) = 0 )
           => After(k).currentModel = V3_Before(k).currentModel ]_vars

\* C17 as stated: every fallback step moves along cfg.fallbackChain: from a
\* model outside the chain to its first entry (sonnet-4-5), and from an entry
\* of the chain to the one after it (haiku-4-5, then gemini-flash).
C17_FallbackChainOrder ==
  [][ \A k \in DOMAIN sessionStates' :
        FallbackStep(k) =>
          /\ indexOf(cfg.fallbackChain, V3_Before(k).currentModel) + 1 < Len(cfg.fallbackChain)
          /\ After(k).currentModel =
               cfg.fallbackChain[indexOf(cfg.fallbackChain, V3_Before(k).currentModel) + 2] ]_vars

\* a model identifier: a non-empty string
IsModelId(x) ==
  /\ TruthyText(x)
  /\ \A p \in ObjectPrototype : x # p[2]

\* C20 as stated: for every non-empty peer model identifier and complement
\* table, getComplementModel returns a model identifier.
C20_ComplementTotal ==
  result.kind = "complement" => IsModelId(result.model)

\* C35: in the v3 router a turn start that is no approval of a pending
\* suggestion, and in whose message window no peer announcement is found,
\* leaves currentModel unchanged and emits at most a suggestion.
C35_AutoSwitchNeedsPeer ==
  [][ \A k \in DOMAIN sessionStates' :
        ( /\ TurnStart(k)
          /\ event'.branch # "approve"
          /\ ~TruthyText(event'.otherAgentModel) )
        => /\ After(k).currentModel = V3_Before(k).currentModel
           /\ result'.kind \in {"suggest", "none"} ]_vars

----------------------------------------------------------------------------
(***************************************************************************)
(* The v4 plugin (src/unnamed/part_000): the collaboration check comes     *)
(* first in before_agent_start and switches without approval; every        *)
(* injection builder returns the empty string; completion is the           *)
(* beads_close tool.                                                       *)
(***************************************************************************)

V4_CODING_SIGNALS ==
  { <<"U+0060","U+0060","U+0060">>,
    <<"w","r","i","t","e"," ","c","o","d","e">>,
    <<"w","r","i","t","e"," ","a"," ","s","c","r","i","p","t">>,
    <<"b","u","i","l","d"," ","a"," ","s","c","r","i","p","t">>,
    <<"c","r","e","a","t","e"," ","a"," ","s","c","r","i","p","t">>,
    <<"w","r","i","t","e"," ","a"," ","f","u","n","c","t","i","o","n">>,
    <<"d","e","b","u","g">>,
    <<"f","i","x"," ","t","h","i","s"," ","c","o","d","e">>,
    <<"r","e","f","a","c","t","o","r">>,
    <<"i","m","p","l","e","m","e","n","t">>,
    <<"t","y","p","e","s","c","r","i","p","t">>,
    <<"j","a","v","a","s","c","r","i","p","t">>,
    <<"p","y","t","h","o","n">>,
    <<"b","a","s","h">>,
    <<"s","q","l">>,
    <<"a","p","i"," ","e","n","d","p","o","i","n","t">>,
    <<"u","n","i","t"," ","t","e","s","t">>,
    <<"p","u","l","l"," ","r","e","q","u","e","s","t">>,
    <<"s","t","a","c","k"," ","t","r","a","c","e">>,
    <<"e","r","r","o","r",":">>,
    <<"e","x","c","e","p","t","i","o","n">> }

V4_COMPLEX_SIGNALS ==
  { <<"o","r","c","h","e","s","t","r","a","t">>,
    <<"c","o","o","r","d","i","n","a","t","e">>,
    <<"m","u","l","t","i","-","a","g","e","n","t">>,
    <<"s","u","b","-","a","g","e","n","t">>,
    <<"s","p","a","w","n">>,
    <<"d","e","l","e","g","a","t","e">>,
    <<"a","r","c","h","i","t","e","c","t">>,
    <<"s","y","s","t","e","m"," ","d","e","s","i","g","n">>,
    <<"e","n","d","-","t","o","-","e","n","d">>,
    <<"m","i","g","r","a","t","e">>,
    <<"r","o","l","l","o","u","t">>,
    <<"s","e","c","u","r","i","t","y"," ","r","e","v","i","e","w">>,
    <<"a","u","d","i","t">> }

V4_PLANNING_SIGNALS ==
  { <<"d","e","s","i","g","n">>,
    <<"p","l","a","n">>,
    <<"s","t","r","a","t","e","g","y">>,
    <<"r","o","a","d","m","a","p">>,
    <<"r","e","s","e","a","r","c","h">>,
    <<"a","n","a","l","y","z","e">>,
    <<"e","v","a","l","u","a","t","e">>,
    <<"c","o","m","p","a","r","e">>,
    <<"r","e","c","o","m","m","e","n","d">>,
    <<"p","r","o","p","o","s","a","l">>,
    <<"r","f","c">>,
    <<"s","p","e","c">>,
    <<"r","e","q","u","i","r","e","m","e","n","t","s">> }

V4_classifyTask(text) ==
  LET t == toLowerCase(text) IN
  IF someIncluded(V4_CODING_SIGNALS, t) THEN "coding"
  ELSE IF someIncluded(V4_COMPLEX_SIGNALS, t) THEN "complex"
  ELSE IF someIncluded(V4_PLANNING_SIGNALS, t) THEN "planning"
  ELSE "simple"

V4_approvalTriggers ==
  { <<"g","o"," ","a","h","e","a","d">>, <<"p","r","o","c","e","e","d">>, <<"d","o"," ","i","t">>, <<"g","r","e","e","n"," ","l","i","g","h","t">>, <<"a","p","p","r","o","v","e","d">>,
    <<"y","e","s">>, <<"y","e","a","h">>, <<"y","e","p">>, <<"l","o","o","k","s"," ","g","o","o","d">>, <<"l","g","t","m">>, <<"s","h","i","p"," ","i","t">>,
    <<"b","u","i","l","d"," ","i","t">>, <<"e","x","e","c","u","t","e">>, <<"s","t","a","r","t">>, <<"b","e","g","i","n">> }

V4_overrideTriggers ==
  { <<"s","t","i","c","k"," ","w","i","t","h"," ","f","l","a","s","h">>, <<"s","t","a","y"," ","o","n"," ","f","l","a","s","h">>, <<"k","e","e","p"," ","f","l","a","s","h">>, <<"u","s","e"," ","f","l","a","s","h">>,
    <<"j","u","s","t"," ","u","s","e"," ","f","l","a","s","h">>, <<"f","l","a","s","h"," ","i","s"," ","f","i","n","e">>, <<"n","o"," ","s","w","i","t","c","h">>, <<"d","o","n","'","t"," ","s","w","i","t","c","h">> }

\* a table that answers a peer on gemini-pro with gemini-pro
V4_modelComplements_same ==
  << <<<<"o","p","u","s">>, <<"g","e","m","i","n","i","-","p","r","o">>>>,
     <<<<"g","e","m","i","n","i","-","p","r","o">>, <<"g","e","m","i","n","i","-","p","r","o">>>>,
     <<<<"g","p","t">>, <<"o","p","u","s">>>> >>

\* Object.entries(modelComplements), in insertion order
V4_modelComplements ==
  << <<<<"o","p","u","s">>, <<"g","e","m","i","n","i","-","p","r","o">>>>,
     <<<<"g","e","m","i","n","i","-","p","r","o">>, <<"o","p","u","s">>>>,
     <<<<"g","p","t">>, <<"o","p","u","s">>>> >>

V4_DEFAULT_CONFIG ==
  [ enabled |-> TRUE,
    announceSwitch |-> TRUE,
    announceSuggestion |-> TRUE,
    defaultModel |-> <<"g","e","m","i","n","i","-","f","l","a","s","h">>,
    models |->
      [ simple |-> << <<"g","e","m","i","n","i","-","f","l","a","s","h">>, <<"s","o","n","n","e","t","-","4","-","5">> >>,
        planning |-> << <<"g","e","m","i","n","i","-","p","r","o">>, <<"o","p","u","s">> >>,
        complex |-> << <<"o","p","u","s">>, <<"g","p","t">> >>,
        coding |-> << <<"g","p","t">>, <<"g","e","m","i","n","i","-","p","r","o">> >> ],
    approvalTriggers |-> V4_approvalTriggers,
    overrideTriggers |-> V4_overrideTriggers,
    collaborationChannel |-> UndefinedText,
    collaborationAutoSwitch |-> FALSE,
    modelComplements |-> V4_modelComplements,
    agentId |-> UndefinedText ]

V4_isApproval(text, conf) == someIncluded(conf.approvalTriggers, trim(toLowerCase(text)))
V4_isOverride(text, conf) == someIncluded(conf.overrideTriggers, trim(toLowerCase(text)))

V4_getPrimaryModel(category, conf) ==
  LET categoryModels == Coalesce(V3_ModelsOf(conf.models, category),
                                 V3_ModelsOf(V4_DEFAULT_CONFIG.models, category))
  IN IF categoryModels = <<>> THEN UndefinedText ELSE categoryModels[1]

----------------------------------------------------------------------------
(* v4 collaboration helpers *)

\* /channel[:\-](\d+)/i matches at position i and captures text[from..to]
ChannelMatchAt(text, i, from, to) ==
  /\ LiteralAtCI(text, i, <<"c","h","a","n","n","e","l">>)
  /\ from = i + 8
  /\ from <= to
  /\ to <= Len(text)
  /\ text[i + 7] \in {":", "-"}
  /\ \A j \in from..to : text[j] \in Range(DigitChars)
  /\ to = Len(text) \/ text[to + 1] \notin Range(DigitChars)

\* the digits after the first "channel:" or "channel-" that digits follow; else null
extractChannelId(sessionKey) ==
  LET ChannelId(found) ==
        IF found = {} THEN NullText
        ELSE LET match == CHOOSE h \in found : \A g \in found : h[1] <= g[1]
             IN SubSeq(sessionKey, match[2], match[3])
  IN CHOOSE id \in { ChannelId(found) :
                       found \in { { h \in (DOMAIN sessionKey) \X (DOMAIN sessionKey)
                                                            \X (DOMAIN sessionKey) :
                                       ChannelMatchAt(sessionKey, h[1], h[2], h[3]) } } } : TRUE

\* /(?:📢\s*)?MODEL:\s*(\S+)/i matches from position i on and captures text[from..to]
ModelMatchAt(text, i, from, to) ==
  /\ \E m \in i..Len(text) :
       /\ m = i \/ (text[i] = Megaphone /\ Blank(text, i + 1, m - 1))
       /\ LiteralAtCI(text, m, <<"m","o","d","e","l",":">>)
       /\ from >= m + 6
       /\ Blank(text, m + 6, from - 1)
  /\ Captures(text, from, to)

\* modelMatch[1].toLowerCase() of the leftmost match; null when there is none
ModelMatch(content) ==
  LET Token(found) ==
        IF found = {} THEN NullText
        ELSE LET match == CHOOSE h \in found : \A g \in found : h[1] <= g[1]
             IN toLowerCase(SubSeq(content, match[2], match[3]))
  IN CHOOSE token \in { Token(found) :
                          found \in { { h \in (DOMAIN content) \X (DOMAIN content)
                                                            \X (DOMAIN content) :
                                          ModelMatchAt(content, h[1], h[2], h[3]) } } } : TRUE

----------------------------------------------------------------------------
(* v4 configuration, session state and host events *)

V4_AgentId == <<"a","g","e","n","t","-","a">>

\* api.pluginConfig: nothing, or the collaboration settings of agent-a
V4_PluginConfigs ==
  { [ keys |-> {} ],
    [ keys |-> {"collaborationChannel", "collaborationAutoSwitch", "agentId"},
      collaborationChannel |-> V3_COLLABORATION_CHANNEL_ID,
      collaborationAutoSwitch |-> TRUE,
      agentId |-> V4_AgentId ] }

\* { ...DEFAULT_CONFIG, ...api.pluginConfig }
V4_RegisterConfig(pluginConfig) ==
  [ V4_DEFAULT_CONFIG EXCEPT
      !.collaborationChannel =
         IF "collaborationChannel" \in pluginConfig.keys
         THEN pluginConfig.collaborationChannel ELSE @,
      !.collaborationAutoSwitch =
         IF "collaborationAutoSwitch" \in pluginConfig.keys
         THEN pluginConfig.collaborationAutoSwitch ELSE @,
      !.agentId = IF "agentId" \in pluginConfig.keys THEN pluginConfig.agentId ELSE @ ]

V4_InitialState(defaultModel) ==
  [ currentModel |-> defaultModel,
    pendingApproval |-> FALSE,
    suggestedModel |-> UndefinedText,
    suggestedCategory |-> Undefined ]

V4_getState(states, sessionKey, defaultModel) ==
  IF sessionKey \in DOMAIN states
  THEN states
  ELSE [k \in DOMAIN states \cup {sessionKey} |->
          IF k = sessionKey THEN V4_InitialState(defaultModel) ELSE states[k]]

V4_SessionKeys == { V3_ChannelKey, <<"u","n","k","n","o","w","n">> }
\* the context a hook is called with: given with or without a session key,
\* or not given at all, and then reading ctx.sessionKey throws a TypeError
V4_HookContexts ==
  { [given |-> TRUE, sessionKey |-> V3_ChannelKey],
    [given |-> TRUE, sessionKey |-> UndefinedText],
    [given |-> FALSE, sessionKey |-> UndefinedText] }
V4_SessionEndContexts ==
  { [sessionId |-> V3_ChannelKey], [sessionId |-> <<"7","f","3","a">>], [sessionId |-> UndefinedText] }

V4_UserTexts ==
  { <<"h","e","l","l","o"," ","t","h","e","r","e">>,
    <<"g","o"," ","a","h","e","a","d">>,
    <<"s","t","a","y"," ","o","n"," ","f","l","a","s","h">>,
    <<"p","l","a","n"," ","t","h","e"," ","r","o","a","d","m","a","p">>,
    <<"r","e","f","a","c","t","o","r"," ","t","h","e"," ","p","a","r","s","e","r">> }

\* turns without a history, and turns of a shared channel whose history
\* holds announcements: of a peer, of a peer and of agent-a itself, of a
\* model the complement table does not know, and one quoted by the user
V4_TurnEvents ==
  { [prompt |-> p, hasMessages |-> FALSE, messages |-> <<>>] : p \in V4_UserTexts }
  \cup
  { [prompt |-> <<"h","e","l","l","o"," ","t","h","e","r","e">>, hasMessages |-> TRUE,
     messages |-> << Message("assistant", <<"U+1F4E2"," ","M","O","D","E","L",":"," ","O","p","u","s">>),
                     Message("assistant", <<"o","n"," ","i","t">>),
                     Message("user", <<"h","e","l","l","o"," ","t","h","e","r","e">>) >>],
    [prompt |-> <<"g","o"," ","a","h","e","a","d">>, hasMessages |-> TRUE,
     messages |-> << Message("assistant", <<"U+1F4E2"," ","M","O","D","E","L",":"," ","g","p","t">>),
                     Message("assistant", <<"a","g","e","n","t","-","a"," ","h","e","r","e","."," ","M","O","D","E","L",":"," ","o","p","u","s">>),
                     Message("user", <<"g","o"," ","a","h","e","a","d">>) >>],
    [prompt |-> <<"p","l","a","n"," ","t","h","e"," ","r","o","a","d","m","a","p">>, hasMessages |-> TRUE,
     messages |-> << Message("assistant", <<"M","O","D","E","L",":"," ","s","o","n","n","e","t","-","4","-","5">>),
                     Message("user", <<"p","l","a","n"," ","t","h","e"," ","r","o","a","d","m","a","p">>) >>],
    \* a last user message with no content: JSON.stringify(undefined) is undefined
    [prompt |-> <<"h","e","l","l","o"," ","t","h","e","r","e">>, hasMessages |-> TRUE,
     messages |-> << Message("user", UndefinedText) >>] }

V4_MessageTexts ==
  UNION { { ev.messages[i].content : i \in DOMAIN ev.messages } : ev \in V4_TurnEvents }

\* the windows and identities detectOtherAgentModel is applied to on its own
DetectContents == { <<"U+1F4E2"," ","M","O","D","E","L",":"," ","O","p","u","s">>, <<"a","g","e","n","t","-","a"," ","h","e","r","e","."," ","M","O","D","E","L",":"," ","o","p","u","s">>, <<"M","O","D","E","L",":"," ","g","p","t">>, <<"o","n"," ","i","t">> }
DetectMessages == { Message(r, c) : r \in {"assistant", "user"}, c \in DetectContents }
MaxWindow == 2
DetectWindows == UNION { [1..n -> DetectMessages] : n \in 0..MaxWindow }
DetectIdentities == { UndefinedText, V4_AgentId }

V4_ApprovesTable == { <<x, V4_isApproval(x, V4_DEFAULT_CONFIG)>> : x \in V4_UserTexts }
V4_OverridesTable == { <<x, V4_isOverride(x, V4_DEFAULT_CONFIG)>> : x \in V4_UserTexts }
V4_ClassifyTable == { <<x, V4_classifyTask(x)>> : x \in V4_UserTexts }
ChannelIdTable == { <<x, extractChannelId(x)>> : x \in V4_SessionKeys }
ModelMatchTable == { <<x, ModelMatch(x)>> : x \in V4_MessageTexts \cup DetectContents }

\* the message is skipped as the agent's own: the agent id is known and is in the content
OwnMessage(content, myAgentId) ==
  /\ TruthyText(myAgentId)
  /\ includes(toLowerCase(content), toLowerCase(myAgentId))

\* a scan that reads the messages of every role
Detects_anyRole(messages, i, myAgentId) ==
  /\ ~OwnMessage(messages[i].content, myAgentId)
  /\ Lookup(ModelMatchTable, messages[i].content) # NullText

\* message i is read by the scan and announces a model
Detects(messages, i, myAgentId) ==
  /\ messages[i].role = "assistant"
  /\ ~OwnMessage(messages[i].content, myAgentId)
  /\ Lookup(ModelMatchTable, messages[i].content) # NullText

\* the newest assistant message that is not the agent's own and announces a model
detectOtherAgentModel(messages, myAgentId) ==
  IF \E i \in DOMAIN messages : Detects(messages, i, myAgentId)
  THEN Lookup(ModelMatchTable,
         messages[CHOOSE i \in DOMAIN messages :
                    /\ Detects(messages, i, myAgentId)
                    /\ \A j \in (i + 1)..Len(messages) :
                         ~Detects(messages, j, myAgentId)].content)
  ELSE NullText

\* the value of the first entry whose key is a substring of the lowercased model; else null
RECURSIVE V4_getComplementModel(_, _)
V4_getComplementModel(otherModel, complements) ==
  IF complements = <<>> THEN NullText
  ELSE IF includes(toLowerCase(otherModel), toLowerCase(Head(complements)[1]))
    THEN Head(complements)[2]
  ELSE V4_getComplementModel(otherModel, Tail(complements))

V4_ToolNames == {"beads_close", "exec"}

----------------------------------------------------------------------------
(* v4 hooks *)

\* the injection builders: all return the empty string
V4_buildSuggestionInjection(category, model) == <<>>
V4_buildSwitchInjection(model) == <<>>
V4_buildCollaborationSwitchInjection(model, otherModel) == <<>>

\* a returned { prependContext }, with the directive it was built from
V4_Directive(kind, model, text) == [kind |-> kind, model |-> model, prependContext |-> text]

V4_Outcome(state, res, branch) == [state |-> state, result |-> res, branch |-> branch]

\* a handler whose exception reaches the host
V4_catch_rethrows(hook) == Raised

\* the catch block of a hook: the error is logged and the handler returns undefined
V4_catch(hook) == NoDirective

\* the peer model the collaboration check finds for this turn; null when
\* collaboration is off, the session is not in the channel, or nothing is found
V4_OtherModel(sessionKey, ev, conf) ==
  IF /\ conf.collaborationAutoSwitch
     /\ TruthyText(conf.collaborationChannel)
     /\ Lookup(ChannelIdTable, sessionKey) = conf.collaborationChannel
     /\ ev.hasMessages
  THEN detectOtherAgentModel(ev.messages, conf.agentId)
  ELSE NullText

\* a collaboration check that waits while a suggestion is pending
V4_Complement_unlessPending(state, sessionKey, ev, conf) ==
  IF TruthyText(V4_OtherModel(sessionKey, ev, conf)) /\ ~state.pendingApproval
  THEN V4_getComplementModel(V4_OtherModel(sessionKey, ev, conf), conf.modelComplements)
  ELSE NullText

\* the complement the collaboration check computes; null when there is no peer model
V4_Complement(state, sessionKey, ev, conf) ==
  IF TruthyText(V4_OtherModel(sessionKey, ev, conf))
  THEN V4_getComplementModel(V4_OtherModel(sessionKey, ev, conf), conf.modelComplements)
  ELSE NullText

\* the writes of the override branch
V4_OverrideSuggestion(state) ==
  [state EXCEPT !.pendingApproval = FALSE,
                !.suggestedModel = UndefinedText,
                !.suggestedCategory = Undefined]

\* the writes of the approval branch
V4_ApproveSuggestion(state) ==
  [state EXCEPT !.currentModel = state.suggestedModel,
                !.pendingApproval = FALSE,
                !.suggestedModel = UndefinedText,
                !.suggestedCategory = Undefined]

\* a collaboration check that switches whenever a complement is found
V4_AutoSwitches_always(state, complement) == TruthyText(complement)

\* complement && state.currentModel !== complement
V4_AutoSwitches(state, complement) ==
  TruthyText(complement) /\ state.currentModel # complement

V4_beforeAgentStart(state, sessionKey, ev, conf) ==
  LET userText == ExtractUserText(ev)
      category == Lookup(V4_ClassifyTable, userText)
      complement == V4_Complement(state, sessionKey, ev, conf)
      suggestedModel == V4_getPrimaryModel(category, conf)
  IN
  IF V4_AutoSwitches(state, complement) THEN
    V4_Outcome([state EXCEPT !.currentModel = complement],
               V4_Directive("autoSwitch", complement,
                 V4_buildCollaborationSwitchInjection(complement,
                   V4_OtherModel(sessionKey, ev, conf))),
               "autoSwitch")
  ELSE IF userText = UndefinedText THEN
    \* text.toLowerCase() of undefined throws in isOverride or in classifyTask
    V4_Outcome(state, V4_catch("before_agent_start"), "caught")
  ELSE IF state.pendingApproval /\ Lookup(V4_OverridesTable, userText) THEN
    V4_Outcome(V4_OverrideSuggestion(state), NoDirective, "override")
  ELSE IF /\ state.pendingApproval
          /\ TruthyText(state.suggestedModel)
          /\ Lookup(V4_ApprovesTable, userText) THEN
    V4_Outcome(V4_ApproveSuggestion(state),
               V4_Directive("switch", state.suggestedModel,
                 V4_buildSwitchInjection(state.suggestedModel)),
               "approve")
  ELSE IF category = "simple" THEN
    V4_Outcome(state, NoDirective, "simple")
  ELSE IF state.currentModel = suggestedModel \/ state.pendingApproval THEN
    V4_Outcome(state, NoDirective, "noResuggest")
  ELSE
    V4_Outcome([state EXCEPT !.suggestedModel = suggestedModel,
                             !.suggestedCategory = category,
                             !.pendingApproval = TRUE],
               V4_Directive("suggest", suggestedModel,
                 V4_buildSuggestionInjection(category, suggestedModel)),
               "suggest")

\* beads_close returns the session to the default model; other tools create no state
V4_afterToolCall(states, sessionKey, toolName, conf) ==
  IF toolName # "beads_close" THEN states
  ELSE LET created == V4_getState(states, sessionKey, conf.defaultModel)
       IN PutState(created, sessionKey,
                   [created[sessionKey] EXCEPT !.currentModel = conf.defaultModel])

----------------------------------------------------------------------------
(* v4 specification *)

InitV4 ==
  /\ sessionStates = [k \in {} |-> V4_InitialState(V4_DEFAULT_CONFIG.defaultModel)]
  /\ ledger = <<>>
  /\ beadsCreated = 0
  /\ cfg \in { V4_RegisterConfig(raw) : raw \in V4_PluginConfigs }
  /\ event = [hook |-> "register"]
  /\ result = NoDirective
  /\ openSuggestion = [k \in SessionKeys |-> Undefined]
  /\ pending = NoCalls
  /\ active = NoSessions

\* ctx.sessionKey throws when no context is given, before getState is reached
V4_BeforeAgentStart(ctx, ev) ==
  LET sessionKey == V3_SessionKeyOf(ctx)
      states == V4_getState(sessionStates, sessionKey, cfg.defaultModel)
      out == V4_beforeAgentStart(states[sessionKey], sessionKey, ev, cfg)
  IN /\ IF ctx.given
        THEN /\ sessionStates' = PutState(states, sessionKey, out.state)
             /\ event' = [hook |-> "before_agent_start", sessionKey |-> sessionKey,
                          userText |-> ExtractUserText(ev),
                          otherModel |-> V4_OtherModel(sessionKey, ev, cfg),
                          branch |-> out.branch]
             /\ result' = out.result
        ELSE /\ sessionStates' = sessionStates
             /\ event' = [hook |-> "before_agent_start", sessionKey |-> UndefinedText,
                          userText |-> ExtractUserText(ev),
                          otherModel |-> NullText,
                          branch |-> "caught"]
             /\ result' = V4_catch("before_agent_start")
     /\ UNCHANGED <<ledger, beadsCreated, cfg, openSuggestion, active, pending>>

\* the tool name is tested before ctx.sessionKey is read
V4_AfterToolCall(ctx, toolName) ==
  LET sessionKey == V3_SessionKeyOf(ctx)
      throws == toolName = "beads_close" /\ ~ctx.given
  IN /\ sessionStates' = IF throws THEN sessionStates
                         ELSE V4_afterToolCall(sessionStates, sessionKey, toolName, cfg)
     /\ event' = [hook |-> "after_tool_call",
                  sessionKey |-> IF ctx.given THEN sessionKey ELSE UndefinedText,
                  toolName |-> toolName,
                  branch |-> IF throws THEN "caught" ELSE "done"]
     /\ result' = IF throws THEN V4_catch("after_tool_call") ELSE NoDirective
     /\ UNCHANGED <<ledger, beadsCreated, cfg, openSuggestion, active, pending>>

V4_SessionEnd(ctx) ==
  /\ sessionStates' = V3_sessionEnd(sessionStates, ctx)
  /\ event' = [hook |-> "session_end", sessionId |-> ctx.sessionId, branch |-> "done"]
  /\ result' = NoDirective
  /\ UNCHANGED <<ledger, beadsCreated, cfg, openSuggestion, active, pending>>

NextV4 ==
  \/ \E ctx \in V4_HookContexts, ev \in V4_TurnEvents : V4_BeforeAgentStart(ctx, ev)
  \/ \E ctx \in V4_HookContexts, toolName \in V4_ToolNames : V4_AfterToolCall(ctx, toolName)
  \/ \E ctx \in V4_SessionEndContexts : V4_SessionEnd(ctx)

SpecV4 == InitV4 /\ [][NextV4]_vars

----------------------------------------------------------------------------
(* detectOtherAgentModel applied to every window of the bounded set *)

InitDetect ==
  /\ sessionStates = [k \in {} |-> V4_InitialState(V4_DEFAULT_CONFIG.defaultModel)]
  /\ ledger = <<>>
  /\ beadsCreated = 0
  /\ cfg = V4_RegisterConfig([keys |-> {}])
  /\ event \in { [hook |-> "detect", messages |-> w, myAgentId |-> id] :
                   w \in DetectWindows, id \in DetectIdentities }
  /\ result = NoDirective
  /\ openSuggestion = [k \in SessionKeys |-> Undefined]
  /\ pending = NoCalls
  /\ active = NoSessions

DetectPeer ==
  /\ result = NoDirective
  /\ result' = [kind |-> "peer",
                model |-> detectOtherAgentModel(event.messages, event.myAgentId)]
  /\ UNCHANGED <<sessionStates, ledger, beadsCreated, cfg, event, openSuggestion, active, pending>>

NextDetect == DetectPeer

SpecDetect == InitDetect /\ [][NextDetect]_vars

----------------------------------------------------------------------------
(* Properties of the v4 router *)

\* the SessionState a v4 hook called for sessionKey k works on
V4_Before(k) == V4_getState(sessionStates, k, cfg.defaultModel)[k]

\* the complement of the peer model found by the turn the step handles
PeerComplement == V4_getComplementModel(event'.otherModel, cfg.modelComplements)

V4_Hooks == {"before_agent_start", "after_tool_call", "session_end"}

\* the hook invocation just handled threw inside its try block
V4_Threw == event.hook \in V4_Hooks /\ event.branch = "caught"

\* C30: in the v4 router no invocation of the turn-start, tool-call or
\* session-end hook lets an exception reach the host, and an invocation in
\* which an exception was thrown (no context object given, or a last user
\* message without content) returns no directive.
C30_CaughtAtHookBoundary ==
  /\ event.hook \in V4_Hooks => result # Raised
  /\ V4_Threw => result = NoDirective

\* a turn start that threw in isOverride, on a message without content, while
\* a suggestion was pending; it returned no directive and the suggestion stays
C30_Witness ==
  /\ event.hook = "before_agent_start"
  /\ event.branch = "caught"
  /\ event.userText = UndefinedText
  /\ event.sessionKey \in DOMAIN sessionStates
  /\ sessionStates[event.sessionKey].pendingApproval
  /\ result = NoDirective

\* the last step was a collaboration auto-switch
AutoSwitched == event.hook = "before_agent_start" /\ event.branch = "autoSwitch"

\* C36: after a collaboration auto-switch currentModel is the complement of
\* the peer's model, and the turn-start handler run again for that session,
\* on any window in which the same peer model is found, returns no second
\* auto-switch directive and leaves currentModel to the standard flow.
C36_AutoSwitchIdempotent ==
  AutoSwitched =>
    /\ sessionStates[event.sessionKey].currentModel
         = V4_getComplementModel(event.otherModel, cfg.modelComplements)
    /\ \A ev \in V4_TurnEvents :
         V4_OtherModel(event.sessionKey, ev, cfg) = event.otherModel
           => /\ V4_beforeAgentStart(sessionStates[event.sessionKey],
                                     event.sessionKey, ev, cfg).branch # "autoSwitch"
              /\ V4_beforeAgentStart(sessionStates[event.sessionKey],
                                     event.sessionKey, ev, cfg).result.kind # "autoSwitch"

\* an auto-switch to gemini-pro on a peer announcing opus, in a session for
\* which a further window with the same announcement can arrive
C36_Witness ==
  /\ AutoSwitched
  /\ event.otherModel = <<"o","p","u","s">>
  /\ sessionStates[event.sessionKey].currentModel = <<"g","e","m","i","n","i","-","p","r","o">>
  /\ \E ev \in V4_TurnEvents :
       /\ V4_OtherModel(event.sessionKey, ev, cfg) = <<"o","p","u","s">>
       /\ V4_beforeAgentStart(sessionStates[event.sessionKey],
                              event.sessionKey, ev, cfg).branch = "simple"

\* the messages of the window, of the given roles, that carry an announcement
\* and do not contain the caller's identity
PeerAnnouncements(roles) ==
  { i \in DOMAIN event.messages :
      /\ event.messages[i].role \in roles
      /\ Lookup(ModelMatchTable, event.messages[i].content) # NullText
      /\ ~OwnMessage(event.messages[i].content, event.myAgentId) }

\* the token of the last of these messages; none when there is no such message
MostRecentToken(found) ==
  IF found = {} THEN NullText
  ELSE Lookup(ModelMatchTable,
              event.messages[CHOOSE i \in found : \A j \in found : j <= i].content)

----------------------------------------------------------------------------
(* The keyword classifiers of the other revisions in src/index.ts *)

\* v8: the v6 coding signals and the "expanded patterns"
V8_CODING_SIGNALS ==
  CODING_SIGNALS \cup
  { <<"c","o","d","e"," ","m","e">>, <<"c","o","d","e"," ","t","h","i","s">>, <<"c","o","d","e"," ","a">>, <<"b","u","i","l","d"," ","m","e">>, <<"b","u","i","l","d"," ","a">>,
    <<"c","r","e","a","t","e"," ","a">>, <<"m","a","k","e"," ","m","e"," ","a">>, <<"p","r","o","g","r","a","m">>, <<"s","c","r","i","p","t"," ","t","o">>, <<"a","u","t","o","m","a","t","e">>,
    <<"c","l","i"," ","t","o","o","l">>, <<"b","o","t">>, <<"w","e","b","h","o","o","k">>, <<"i","n","t","e","g","r","a","t","i","o","n">>, <<"p","a","r","s","e">>,
    <<"g","e","n","e","r","a","t","e"," ","c","o","d","e">> }

\* v8: the security-audit, complex and moderate signal lists are those of v6
classifyTaskKeywords(text) ==
  LET t == toLowerCase(text) IN
  IF someIncluded(SECURITY_AUDIT_SIGNALS, t) THEN "security-audit"
  ELSE IF someIncluded(COMPLEX_SIGNALS, t) THEN "complex"
  ELSE IF someIncluded(V8_CODING_SIGNALS, t) THEN "coding"
  ELSE IF someIncluded(MODERATE_SIGNALS, t) THEN "moderate"
  ELSE Null

\* v3 (the first plugin of src/index.ts): its three signal lists are, entry
\* for entry, the lists the v4 plugin carries
IndexV3_classifyTask(text) ==
  LET t == toLowerCase(text) IN
  IF someIncluded(V4_CODING_SIGNALS, t) THEN "coding"
  ELSE IF someIncluded(V4_COMPLEX_SIGNALS, t) THEN "complex"
  ELSE IF someIncluded(V4_PLANNING_SIGNALS, t) THEN "planning"
  ELSE "simple"

IndexV3_Categories == {"simple", "planning", "complex", "coding"}

----------------------------------------------------------------------------
(* The classifiers as pure functions: a text is drawn, one classifier is   *)
(* applied to it.                                                          *)

Openers == { <<"p","l","e","a","s","e">>, <<"N","o","w">> }
SecurityPhrases == { <<>>, <<" ","d","o"," ","a"," ","S","e","c","u","r","i","t","y"," ","R","e","v","i","e","w">> }
CodingPhrases == { <<>>, <<" ","r","e","f","a","c","t","o","r"," ","i","t">>, <<" ","D","e","b","u","g"," ","i","t">> }
ComplexPhrases == { <<>>, <<" ","a","s"," ","t","h","e"," ","a","r","c","h","i","t","e","c","t">>, <<" ","a","n","d"," ","M","i","g","r","a","t","e">> }
ModeratePhrases == { <<>>, <<" ","t","h","e","n"," ","s","u","m","m","a","r","i","z","e">> }

ClassifierTexts ==
  { o \o s \o c \o x \o m :
      o \in Openers, s \in SecurityPhrases, c \in CodingPhrases,
      x \in ComplexPhrases, m \in ModeratePhrases }

Classifiers == {"v3", "v6", "v8"}

Classified(version, text) ==
  [kind |-> "classified", version |-> version,
   category |-> CASE version = "v3" -> IndexV3_classifyTask(text)
                  [] version = "v6" -> classifyTask(text)
                  [] version = "v8" -> classifyTaskKeywords(text)]

InitClassify ==
  /\ sessionStates = [k \in {} |-> InitialState]
  /\ ledger = <<>>
  /\ beadsCreated = 0
  /\ cfg = RegisterConfig(CHOOSE raw \in PluginConfigs : TRUE)
  /\ event \in { [hook |-> "classify", text |-> t] : t \in ClassifierTexts }
  /\ result = NoDirective
  /\ openSuggestion = [k \in SessionKeys |-> Undefined]
  /\ pending = NoCalls
  /\ active = NoSessions

Classify(version) ==
  /\ result = NoDirective
  /\ result' = Classified(version, event.text)
  /\ UNCHANGED <<sessionStates, ledger, beadsCreated, cfg, event, openSuggestion, active, pending>>

NextClassify == \E version \in Classifiers : Classify(version)

SpecClassify == InitClassify /\ [][NextClassify]_vars

----------------------------------------------------------------------------
(* Claims about the keyword classifiers *)

\* which signal lists the classified text matches
Mentions(signals) == someIncluded(signals, toLowerCase(event.text))

MentionsCoding ==
  Mentions(IF result.version = "v8" THEN V8_CODING_SIGNALS
           ELSE IF result.version = "v6" THEN CODING_SIGNALS
           ELSE V4_CODING_SIGNALS)

\* C21: the rules are tried security-audit, coding, complex, moderate: a text
\* of the v6 or v8 classifier that contains a coding signal and a complex
\* signal and no security-audit signal is classified coding.
C21_CodingBeforeComplex ==
  ( /\ result.kind = "classified"
    /\ result.version \in {"v6", "v8"}
    /\ MentionsCoding
    /\ Mentions(COMPLEX_SIGNALS)
    /\ ~Mentions(SECURITY_AUDIT_SIGNALS) )
  => result.category = "coding"

\* C22: a text that contains a coding signal and no signal of a rule of higher
\* priority (security-audit in v6, none in v3) is classified coding; a text
\* that contains no signal of any rule is classified simple; the result is
\* always one of the categories of the revision.
C22_CodingSimpleClosed ==
  ( result.kind = "classified" /\ result.version \in {"v3", "v6"} ) =>
    /\ result.category \in
         (IF result.version = "v6" THEN Categories ELSE IndexV3_Categories)
    /\ ( /\ MentionsCoding
         /\ result.version = "v6" => ~Mentions(SECURITY_AUDIT_SIGNALS) )
       => result.category = "coding"
    /\ ( IF result.version = "v6"
         THEN ~Mentions(SECURITY_AUDIT_SIGNALS \cup COMPLEX_SIGNALS
                        \cup CODING_SIGNALS \cup MODERATE_SIGNALS)
         ELSE ~Mentions(V4_CODING_SIGNALS \cup V4_COMPLEX_SIGNALS
                        \cup V4_PLANNING_SIGNALS) )
       => result.category = "simple"

----------------------------------------------------------------------------
(* v8: hybrid classification.  The before_agent_start handler awaits the   *)
(* external classifier, so an invocation is suspended at "await fetch" and *)
(* at "await response.json()" and other hooks run in between.              *)

V8_DEFAULT_CONFIG ==
  [ enabled |-> TRUE,
    models |->
      [ simple |-> <<>>,
        moderate |-> <<"sonnet", "gemini-flash">>,
        coding |-> <<"opus", "sonnet", "gemini-flash">>,
        complex |-> <<"opus", "gemini-pro">>,
        securityAudit |-> <<"openai-codex/gpt-5.2", "opus">> ] ]

\* process.env.GEMINI_CLASSIFICATION_KEY || process.env.GEMINI_API_KEY
V8_ApiKeys == { Undefined, "key" }

\* the cfg object built by register(), and the environment of the process
V8_RegisterConfig(rawCfg, apiKey) ==
  [ enabled |-> V8_DEFAULT_CONFIG.enabled,
    models |->
      [ simple |-> Coalesce(rawCfg.models.simple, V8_DEFAULT_CONFIG.models.simple),
        moderate |-> Coalesce(rawCfg.models.moderate, V8_DEFAULT_CONFIG.models.moderate),
        coding |-> Coalesce(rawCfg.models.coding, V8_DEFAULT_CONFIG.models.coding),
        complex |-> Coalesce(rawCfg.models.complex, V8_DEFAULT_CONFIG.models.complex),
        securityAudit |-> Coalesce(rawCfg.models.securityAudit,
                                   V8_DEFAULT_CONFIG.models.securityAudit) ],
    apiKey |-> apiKey ]

V8_InitialState ==
  [ currentModel |-> Null,
    suggestedModel |-> Undefined,
    suggestedCategory |-> Undefined,
    suggestedFallbacks |-> UndefinedText,
    pendingApproval |-> FALSE ]

V8_getState(states, sessionKey) ==
  IF sessionKey \in DOMAIN states
  THEN states
  ELSE [k \in DOMAIN states \cup {sessionKey} |->
          IF k = sessionKey THEN V8_InitialState ELSE states[k]]

V8_buildSuggestionInjection(category, model, fallbacks) ==
  [kind |-> "suggest", category |-> category, model |-> model, fallbacks |-> fallbacks]

V8_buildSwitchInjection(category, model) ==
  [kind |-> "switch", category |-> category, model |-> model]

----------------------------------------------------------------------------
(* classifyWithLLM: what the handler makes of the service's answer *)

\* text.length < 50: the messages classified simple without the service
MinLLMLength == 50

V8_validCategories ==
  { <<<<"s","i","m","p","l","e">>, "simple">>, <<<<"m","o","d","e","r","a","t","e">>, "moderate">>, <<<<"c","o","d","i","n","g">>, "coding">>,
    <<<<"c","o","m","p","l","e","x">>, "complex">>, <<<<"s","e","c","u","r","i","t","y","-","a","u","d","i","t">>, "security-audit">> }

\* how "await fetch(...)" settles
V8_FetchOutcomes ==
  { [kind |-> "rejected", text |-> <<>>],
    [kind |-> "http-error", text |-> <<>>],
    [kind |-> "ok", text |-> <<>>] }

\* how "await response.json()" settles: it rejects, or gives data in which
\* candidates[0].content.parts[0].text is a text or is missing
V8_BodyOutcomes ==
  { [kind |-> "rejected", text |-> <<>>],
    [kind |-> "no-text", text |-> <<>>],
    [kind |-> "data", text |-> <<" ","C","o","d","i","n","g","\n">>],
    [kind |-> "data", text |-> <<"b","a","n","a","n","a">>] }

Waiting == [kind |-> "waiting", text |-> <<>>]

V8_llmCategory_invalidAsCoding(settled) ==
  LET r == toLowerCase(trim(settled.text)) IN
  IF settled.kind = "data" /\ r # <<>> /\ \E c \in V8_validCategories : c[1] = r
  THEN (CHOOSE c \in V8_validCategories : c[1] = r)[2]
  ELSE "coding"

\* the value classifyWithLLM returns once the awaited promise has settled
V8_llmCategory(settled) ==
  LET r == toLowerCase(trim(settled.text)) IN
  IF settled.kind = "data" /\ r # <<>> /\ \E c \in V8_validCategories : c[1] = r
  THEN (CHOOSE c \in V8_validCategories : c[1] = r)[2]
  ELSE Null

----------------------------------------------------------------------------
(* v8 host events *)

V8_HookContexts == { [sessionKey |-> "agent:main"], [sessionKey |-> Undefined] }

V8_SessionEndContexts == { [sessionId |-> "agent:main"], [sessionId |-> Undefined] }

V8_UserTexts ==
  { <<"H","i",","," ","w","h","a","t"," ","t","i","m","e"," ","w","i","l","l"," ","t","h","e"," ","s","h","o","p"," ","n","e","a","r"," ","t","h","e"," ","s","t","a","t","i","o","n"," ","s","h","u","t">>,
    <<"H","i",","," ","w","h","a","t"," ","t","i","m","e"," ","w","i","l","l"," ","t","h","e"," ","s","h","o","p"," ","n","e","a","r"," ","t","h","e"," ","s","t","a","t","i","o","n"," ","s","h","u","t","?">>,
    <<"H","i",","," ","w","h","a","t"," ","t","i","m","e"," ","w","i","l","l"," ","t","h","e"," ","s","h","o","p"," ","n","e","a","r"," ","t","h","e"," ","s","t","a","t","i","o","n"," ","s","h","u","t","?","?">>,
    <<"G","o"," ","a","h","e","a","d">>,
    <<"s","t","a","y"," ","o","n"," ","h","a","i","k","u">>,
    <<"p","l","e","a","s","e"," ","r","e","f","a","c","t","o","r"," ","t","h","i","s"," ","f","u","n","c","t","i","o","n">> }

V8_TurnEvents ==
  { [prompt |-> p, hasMessages |-> FALSE, messages |-> <<>>] : p \in V8_UserTexts }

V8_ApprovesTable == { <<x, Approves(x)>> : x \in V8_UserTexts }
V8_OverridesTable == { <<x, Overrides(x)>> : x \in V8_UserTexts }
V8_KeywordTable == { <<x, classifyTaskKeywords(x)>> : x \in V8_UserTexts }

----------------------------------------------------------------------------
(* Hook: before_agent_start (v8) *)

V8_Outcome(state, res, branch) == [state |-> state, result |-> res, branch |-> branch]

V8_ApproveSuggestion(state) ==
  [state EXCEPT !.currentModel = state.suggestedModel,
                !.pendingApproval = FALSE,
                !.suggestedModel = Undefined,
                !.suggestedCategory = Undefined,
                !.suggestedFallbacks = UndefinedText]

V8_OverrideSuggestion(state) ==
  [state EXCEPT !.pendingApproval = FALSE,
                !.suggestedModel = Undefined,
                !.suggestedCategory = Undefined,
                !.suggestedFallbacks = UndefinedText]

\* "Handle pending approval"
V8_pendingBranch(state, userText) ==
  IF Lookup(V8_ApprovesTable, userText) THEN
    V8_Outcome(V8_ApproveSuggestion(state),
               V8_buildSwitchInjection(state.suggestedCategory, state.suggestedModel),
               "approve")
  ELSE IF Lookup(V8_OverridesTable, userText) THEN
    V8_Outcome(V8_OverrideSuggestion(state), NoDirective, "override")
  ELSE V8_Outcome(state, NoDirective, "waiting")

\* the handler after "const category = await classifyTask(...)"
V8_afterClassify(state, category, conf) ==
  LET modelList == getModelList(category, conf)
      primaryModel == First(modelList)
  IN
  IF category = "simple" THEN V8_Outcome(state, NoDirective, "simple")
  ELSE IF ~Truthy(primaryModel) THEN V8_Outcome(state, NoDirective, "noModel")
  ELSE IF state.currentModel = primaryModel
    THEN V8_Outcome(state, NoDirective, "sameModel")
  ELSE V8_Outcome([state EXCEPT !.suggestedModel = primaryModel,
                                !.suggestedCategory = category,
                                !.suggestedFallbacks = Rest(modelList),
                                !.pendingApproval = TRUE],
                  V8_buildSuggestionInjection(category, primaryModel, Rest(modelList)),
                  "suggest")

\* classifyTask up to the call of fetch: the category, or that the handler
\* is suspended at the await
V8_classifyStart(userText, conf) ==
  LET keywordResult == Lookup(V8_KeywordTable, userText) IN
  IF keywordResult # Null THEN [awaits |-> FALSE, category |-> keywordResult]
  ELSE IF Len(userText) < MinLLMLength THEN [awaits |-> FALSE, category |-> "simple"]
  ELSE IF ~Truthy(conf.apiKey) THEN [awaits |-> FALSE, category |-> "simple"]
  ELSE [awaits |-> TRUE, category |-> Undefined]

\* what a returned invocation is recorded as
V8_Returned(sessionKey, userText, classified, category, settled, branch) ==
  [hook |-> "before_agent_start", sessionKey |-> sessionKey, userText |-> userText,
   classified |-> classified, category |-> category,
   consulted |-> settled # Waiting, settled |-> settled, branch |-> branch]

InitV8 ==
  /\ sessionStates = [k \in {} |-> V8_InitialState]
  /\ ledger = <<>>
  /\ beadsCreated = 0
  /\ cfg \in { V8_RegisterConfig(raw, key) : raw \in PluginConfigs, key \in V8_ApiKeys }
  /\ event = [hook |-> "register", classified |-> FALSE]
  /\ result = NoDirective
  /\ openSuggestion = [k \in SessionKeys |-> Undefined]
  /\ pending = NoCalls
  /\ active = NoSessions

\* the handler from its call to its first suspension or its return; the host
\* starts one turn of a session at a time
V8_BeforeAgentStart(ctx, ev) ==
  LET sessionKey == SessionKeyOf(ctx)
      states == V8_getState(sessionStates, sessionKey)
      state == states[sessionKey]
      userText == ExtractUserText(ev)
      start == V8_classifyStart(userText, cfg)
      out == IF state.pendingApproval /\ Truthy(state.suggestedModel)
             THEN V8_pendingBranch(state, userText)
             ELSE V8_afterClassify(state, start.category, cfg)
  IN
  /\ sessionKey \notin DOMAIN pending
  /\ IF ~(state.pendingApproval /\ Truthy(state.suggestedModel)) /\ start.awaits
     THEN /\ sessionStates' = states
          /\ pending' = [k \in DOMAIN pending \cup {sessionKey} |->
                           IF k = sessionKey
                           THEN [await |-> "fetch", settled |-> Waiting,
                                 userText |-> userText, detached |-> FALSE,
                                 state |-> V8_InitialState]
                           ELSE pending[k]]
          /\ UNCHANGED <<event, result>>
     ELSE /\ sessionStates' = PutState(states, sessionKey, out.state)
          /\ event' = V8_Returned(sessionKey, userText,
                                  ~(state.pendingApproval /\ Truthy(state.suggestedModel)),
                                  IF state.pendingApproval /\ Truthy(state.suggestedModel)
                                  THEN Undefined ELSE start.category,
                                  Waiting, out.branch)
          /\ result' = out.result
          /\ UNCHANGED pending
  /\ UNCHANGED <<ledger, beadsCreated, cfg, openSuggestion, active>>

\* the service, or the network, settles the promise an invocation awaits
V8_Settle(sessionKey, outcome) ==
  /\ sessionKey \in DOMAIN pending
  /\ pending[sessionKey].settled = Waiting
  /\ outcome \in (IF pending[sessionKey].await = "fetch"
                  THEN V8_FetchOutcomes ELSE V8_BodyOutcomes)
  /\ pending' = [pending EXCEPT ![sessionKey].settled = outcome]
  /\ UNCHANGED <<sessionStates, ledger, beadsCreated, cfg, event, result, openSuggestion, active>>

\* the event loop resumes the invocation whose promise has settled
V8_Resume(sessionKey) ==
  /\ sessionKey \in DOMAIN pending
  /\ pending[sessionKey].settled # Waiting
  /\ LET call == pending[sessionKey]
         object == IF call.detached THEN call.state ELSE sessionStates[sessionKey]
         llmResult == IF call.await = "fetch" THEN Null
                      ELSE V8_llmCategory(call.settled)
         category == IF llmResult # Null THEN llmResult ELSE "simple"
         out == V8_afterClassify(object, category, cfg)
     IN
     IF call.await = "fetch" /\ call.settled.kind = "ok"
     THEN /\ pending' = [pending EXCEPT ![sessionKey].await = "json",
                                        ![sessionKey].settled = Waiting]
          /\ UNCHANGED <<sessionStates, event, result>>
     ELSE /\ pending' = [k \in DOMAIN pending \ {sessionKey} |-> pending[k]]
          /\ sessionStates' = IF call.detached THEN sessionStates
                              ELSE PutState(sessionStates, sessionKey, out.state)
          /\ event' = V8_Returned(sessionKey, call.userText, TRUE, category,
                                  call.settled, out.branch)
          /\ result' = out.result
  /\ UNCHANGED <<ledger, beadsCreated, cfg, openSuggestion, active>>

\* Hook: session_end.  A suspended invocation keeps the state object it
\* obtained from getState; after the delete the object is no longer in the map
V8_SessionEnd(ctx) ==
  /\ sessionStates' = sessionEnd(sessionStates, ctx)
  /\ pending' = [k \in DOMAIN pending |->
                   IF k = ctx.sessionId /\ k \in DOMAIN sessionStates
                      /\ ~pending[k].detached
                   THEN [pending[k] EXCEPT !.detached = TRUE,
                                           !.state = sessionStates[k]]
                   ELSE pending[k]]
  /\ event' = [hook |-> "session_end", sessionId |-> ctx.sessionId, classified |-> FALSE]
  /\ result' = NoDirective
  /\ UNCHANGED <<ledger, beadsCreated, cfg, openSuggestion, active>>

NextV8 ==
  \/ \E ctx \in V8_HookContexts, ev \in V8_TurnEvents : V8_BeforeAgentStart(ctx, ev)
  \/ \E k \in SessionKeys, outcome \in V8_FetchOutcomes \cup V8_BodyOutcomes :
       V8_Settle(k, outcome)
  \/ \E k \in SessionKeys : V8_Resume(k)
  \/ \E ctx \in V8_SessionEndContexts : V8_SessionEnd(ctx)

SpecV8 == InitV8 /\ [][NextV8]_vars

\* the event loop does run a continuation whose promise has settled; nothing
\* obliges the service to answer
SpecV8Live == SpecV8 /\ WF_vars(\E k \in SessionKeys : V8_Resume(k))

----------------------------------------------------------------------------
(* Claims about the hybrid classifier (v8) *)

\* no keyword rule matches the text
NoKeyword(userText) == Lookup(V8_KeywordTable, userText) = Null

\* the last step returned from a classification
ClassifiedTurn(e) == e.hook = "before_agent_start" /\ e.classified

\* C23: classify is idempotent: two classifications of the same text, the
\* second following the first, give the same category, also when the text
\* takes the semantic path.
C23_ClassifyIdempotent ==
  [][ ( /\ ClassifiedTurn(event)
        /\ ClassifiedTurn(event')
        /\ event'.userText = event.userText )
      => event'.category = event.category ]_vars

\* C24: the semantic classifier is consulted only for a message that no
\* keyword rule matches and that is longer than 50 characters; a message of 50
\* characters or fewer that no rule matches is classified simple without it.
C24_ConsultedOnlyWhenLong ==
  /\ \A k \in DOMAIN pending :
       NoKeyword(pending[k].userText) /\ Len(pending[k].userText) > 50
  /\ ( /\ ClassifiedTurn(event)
       /\ NoKeyword(event.userText)
       /\ Len(event.userText) <= 50 )
     => (event.category = "simple" /\ ~event.consulted)

\* the service's answer is not a member of the category set
InvalidAnswer(settled) ==
  \/ settled.kind \in {"rejected", "http-error", "no-text"}
  \/ /\ settled.kind = "data"
     /\ \A c \in V8_validCategories : c[1] # toLowerCase(trim(settled.text))

\* the step returns from the invocation of sessionKey suspended at the service
ReturnsFromService(sessionKey) ==
  sessionKey \in DOMAIN pending /\ sessionKey \notin DOMAIN pending'

\* the step is a whole invocation for a long message no rule matches, in a
\* process without an API key
ReturnsWithoutService ==
  /\ ~Truthy(cfg.apiKey)
  /\ pending' = pending
  /\ ClassifiedTurn(event')
  /\ NoKeyword(event'.userText)
  /\ Len(event'.userText) >= MinLLMLength

\* C25: when the semantic classifier is unavailable (no API key), fails (the
\* request is rejected, the answer is an HTTP error or not JSON) or answers
\* with something that is not a category, the classification is simple, the
\* handler returns no directive and the session's state is what it was (the
\* entry getState creates for a new session key apart).
C25_ServiceFailureIsSimple ==
  [][ /\ \A k \in SessionKeys :
           (ReturnsFromService(k) /\ InvalidAnswer(pending[k].settled))
           => /\ event'.sessionKey = k
              /\ event'.category = "simple"
              /\ result' = NoDirective
              /\ sessionStates' = sessionStates
      /\ ReturnsWithoutService
           => /\ event'.category = "simple"
              /\ ~event'.consulted
              /\ result' = NoDirective
              /\ \/ sessionStates' = sessionStates
                 \/ sessionStates' = V8_getState(sessionStates, event'.sessionKey)
    ]_vars

\* an invocation has returned simple after the service answered "banana"
C25_Witness ==
  /\ ClassifiedTurn(event)
  /\ event.consulted
  /\ event.settled.kind = "data"
  /\ InvalidAnswer(event.settled)
  /\ event.category = "simple"
  /\ result = NoDirective

\* C26: every invocation of the turn-start handler returns, whatever the
\* semantic classifier does: an invocation suspended at the service is
\* eventually no longer suspended.
C26_TurnReturns ==
  \A k \in SessionKeys : (k \in DOMAIN pending) ~> (k \notin DOMAIN pending)

----------------------------------------------------------------------------
(* The escalation ledger as a file (.beads/model-state.json, v6).  Each     *)
(* ledger function reads the whole file, changes the list and writes the   *)
(* whole file back; the file is shared by every process whose workspace    *)
(* directory it lies in, and nothing locks it.                             *)

\* the file as the functions find it: absent, or holding a list of entries
LedgerFile(kind, entries) == [kind |-> kind, entries |-> entries]

MissingFile == LedgerFile("missing", <<>>)

\* loadModelState: the parsed file, or an empty state when there is no file,
\* when reading fails or when the content is not JSON
loadModelState(file) ==
  IF file.kind = "ledger" THEN [activeEscalations |-> file.entries]
  ELSE IF file.kind = "misshapen" THEN [activeEscalations |-> UndefinedText]
  ELSE [activeEscalations |-> <<>>]

\* saveModelState: the file is replaced by the state's JSON
saveModelState(file, state) == LedgerFile("ledger", state.activeEscalations)

\* the two processes that share the workspace directory, one session each
LedgerSessions == {"agent:main", "agent:helper"}

LedgerBeads == { BeadId(1), BeadId(2) }

LedgerEntry(beadId, sessionKey) ==
  [beadId |-> beadId, model |-> "opus", category |-> "coding", sessionKey |-> sessionKey]

InitLedger ==
  /\ sessionStates = [k \in {} |-> InitialState]
  /\ ledger = MissingFile
  /\ beadsCreated = 0
  /\ cfg = RegisterConfig(CHOOSE raw \in PluginConfigs : TRUE)
  /\ event = [hook |-> "register"]
  /\ result = NoDirective
  /\ openSuggestion = [k \in SessionKeys |-> Undefined]
  /\ pending = NoCalls
  /\ active = NoSessions

\* the first statement of addEscalation / removeEscalation: the process holds
\* the state it loaded; removeEscalation returns at once when it finds no entry
LoadLedger(sessionKey, op, beadId) ==
  LET state == loadModelState(ledger)
      found == HasEscalation(state.activeEscalations, beadId)
  IN
  /\ sessionKey \notin DOMAIN pending
  /\ IF op = "remove" /\ ~found
     THEN /\ event' = [hook |-> "ledger", op |-> op, beadId |-> beadId,
                       sessionKey |-> sessionKey, wrote |-> FALSE]
          /\ UNCHANGED pending
     ELSE /\ pending' = [k \in DOMAIN pending \cup {sessionKey} |->
                           IF k = sessionKey
                           THEN [op |-> op, beadId |-> beadId, state |-> state]
                           ELSE pending[k]]
          /\ UNCHANGED event
  /\ UNCHANGED <<sessionStates, ledger, beadsCreated, cfg, result, openSuggestion, active>>

\* the rest of the function: the list is changed and the file is written
SaveLedger(sessionKey) ==
  /\ sessionKey \in DOMAIN pending
  /\ LET call == pending[sessionKey]
         led == call.state.activeEscalations
         changed == IF call.op = "record"
                    THEN addEscalation(led, LedgerEntry(call.beadId, sessionKey))
                    ELSE removeEscalation(led, call.beadId)
     IN /\ ledger' = saveModelState(ledger, [activeEscalations |-> changed])
        /\ event' = [hook |-> "ledger", op |-> call.op, beadId |-> call.beadId,
                     sessionKey |-> sessionKey, wrote |-> TRUE]
  /\ pending' = [k \in DOMAIN pending \ {sessionKey} |-> pending[k]]
  /\ UNCHANGED <<sessionStates, beadsCreated, cfg, result, openSuggestion, active>>

NextLedger ==
  \/ \E k \in LedgerSessions, op \in {"record", "remove"}, b \in LedgerBeads :
       LoadLedger(k, op, b)
  \/ \E k \in LedgerSessions : SaveLedger(k)

SpecLedger == InitLedger /\ [][NextLedger]_vars

----------------------------------------------------------------------------
(* The v6 router over a ledger file that may be damaged.  The handlers have *)
(* no try/catch: what addEscalation, getEscalationByBead or                 *)
(* removeEscalation throws rejects the promise the handler returned.        *)

\* "missing": no file.  "unreadable": readFileSync and writeFileSync throw.
\* "unparseable": the content is not JSON.  "misshapen": the content is JSON
\* without an activeEscalations array.  "readonly": a ledger that
\* writeFileSync cannot replace.  "ledger": a ledger.
LedgerConditions ==
  {"missing", "unreadable", "unparseable", "misshapen", "readonly", "ledger"}

\* state.activeEscalations.filter / .find throws a TypeError
ListThrows(file) == file.kind = "misshapen"

\* writeFileSync throws
WriteThrows(file) == file.kind \in {"unreadable", "readonly"}

\* the list the ledger functions work on when they do not throw
LoadedList(file) ==
  IF file.kind \in {"ledger", "readonly"} THEN file.entries ELSE <<>>

\* the host events of this specification: one session, a request, its
\* approval, small talk, and the close of the bead
F_HookContexts == { [sessionKey |-> "agent:main"] }

F_TurnEvents ==
  { [prompt |-> p, hasMessages |-> FALSE, messages |-> <<>>] :
      p \in { <<"H","e","l","l","o"," ","t","h","e","r","e","."," ","H","o","w"," ","a","r","e"," ","y","o","u">>, <<"G","o"," ","a","h","e","a","d">>,
              <<"p","l","e","a","s","e"," ","r","e","f","a","c","t","o","r"," ","t","h","i","s"," ","f","u","n","c","t","i","o","n"," ","s","o"," ","t","h","a","t"," ","i","t"," ","h","a","n","d","l","e","s"," ","e","m","p","t","y"," ","i","n","p","u","t"," ","a","n","d"," ","a","d","d"," ","t","e","s","t","s">> } }

F_ToolCalls ==
  { [toolName |-> "exec", hasArgs |-> TRUE, command |-> <<"b","d"," ","c","l","o","s","e"," ">> \o BeadId(1)],
    [toolName |-> "read", hasArgs |-> TRUE, command |-> <<"b","d"," ","c","l","o","s","e"," ","b","d","-","1">>] }


InitFaulty ==
  /\ sessionStates = [k \in {} |-> InitialState]
  /\ ledger \in { LedgerFile(kind, <<>>) : kind \in LedgerConditions }
  /\ beadsCreated = 0
  /\ cfg \in { RegisterConfig(raw) : raw \in PluginConfigs }
  /\ event = [hook |-> "register"]
  /\ result = NoDirective
  /\ openSuggestion = [k \in SessionKeys |-> Undefined]
  /\ pending = NoCalls
  /\ active = NoSessions

\* before_agent_start: the approval branch calls addEscalation when a bead was
\* created, before it writes to the session state
F_BeforeAgentStart(ctx, ev, bdSucceeds) ==
  LET sessionKey == SessionKeyOf(ctx)
      states == getState(sessionStates, sessionKey)
      out == beforeAgentStart(states[sessionKey], LoadedList(ledger), beadsCreated,
                              sessionKey, ev, bdSucceeds, cfg)
      records == out.branch = "approve" /\ bdSucceeds
      throws == records /\ (ListThrows(ledger) \/ WriteThrows(ledger))
  IN /\ bdSucceeds => beadsCreated < MaxBeads
     /\ sessionStates' = IF throws THEN states
                         ELSE PutState(states, sessionKey, out.state)
     /\ ledger' = IF records /\ ~throws
                  THEN saveModelState(ledger, [activeEscalations |-> out.ledger])
                  ELSE ledger
     /\ beadsCreated' = out.created
     /\ event' = [hook |-> "before_agent_start", sessionKey |-> sessionKey,
                  userText |-> ExtractUserText(ev),
                  branch |-> IF throws THEN "raised" ELSE out.branch]
     /\ result' = IF throws THEN Raised ELSE out.result
     /\ UNCHANGED <<cfg, openSuggestion, active, pending>>

\* after_tool_call: a "bd close" command calls getEscalationByBead, and
\* removeEscalation when there is an entry, before it writes to the state
F_AfterToolCall(ctx, call) ==
  LET sessionKey == SessionKeyOf(ctx)
      states == getState(sessionStates, sessionKey)
      command == IF call.hasArgs /\ TruthyText(call.command) THEN call.command ELSE <<>>
      beadId == Lookup(CloseMatchTable, command)
      reads == call.toolName = "exec" /\ beadId # NullText
      removes == reads /\ HasEscalation(LoadedList(ledger), beadId)
      throws == \/ reads /\ ListThrows(ledger)
                \/ removes /\ WriteThrows(ledger)
      out == afterToolCall(states[sessionKey], LoadedList(ledger), call)
  IN /\ sessionStates' = IF throws THEN states
                         ELSE PutState(states, sessionKey, out.state)
     /\ ledger' = IF removes /\ ~throws
                  THEN saveModelState(ledger, [activeEscalations |-> out.ledger])
                  ELSE ledger
     /\ event' = [hook |-> "after_tool_call", sessionKey |-> sessionKey,
                  toolName |-> call.toolName,
                  command |-> IF call.hasArgs THEN call.command ELSE <<>>,
                  branch |-> IF throws THEN "raised" ELSE "returned"]
     /\ result' = IF throws THEN Raised ELSE NoDirective
     /\ UNCHANGED <<beadsCreated, cfg, openSuggestion, active, pending>>

\* something outside the plugin changes the file: it is deleted, overwritten
\* or loses its permissions; a ledger made read-only keeps its entries
DamageLedger(kind) ==
  /\ kind # ledger.kind
  /\ kind # "ledger"
  /\ ledger' = LedgerFile(kind, IF kind = "readonly" THEN LoadedList(ledger) ELSE <<>>)
  /\ event' = [hook |-> "file", condition |-> kind]
  /\ result' = NoDirective
  /\ UNCHANGED <<sessionStates, beadsCreated, cfg, openSuggestion, active, pending>>

F_SessionEnd(ctx) ==
  /\ sessionStates' = sessionEnd(sessionStates, ctx)
  /\ event' = [hook |-> "session_end", sessionId |-> ctx.sessionId]
  /\ result' = NoDirective
  /\ UNCHANGED <<ledger, beadsCreated, cfg, openSuggestion, active, pending>>

NextFaulty ==
  \/ \E ctx \in F_HookContexts, ev \in F_TurnEvents, bdSucceeds \in BOOLEAN :
       F_BeforeAgentStart(ctx, ev, bdSucceeds)
  \/ \E ctx \in F_HookContexts, call \in F_ToolCalls : F_AfterToolCall(ctx, call)
  \/ \E kind \in LedgerConditions : DamageLedger(kind)
  \/ \E ctx \in SessionEndContexts : F_SessionEnd(ctx)

SpecFaulty == InitFaulty /\ [][NextFaulty]_vars

----------------------------------------------------------------------------
(* Claims about the ledger functions *)

\* the entries of a ledger file, as a set
Entries(file) == Range(loadModelState(file).activeEscalations)

\* the operation of sessionKey writes the file in this step
Writes(sessionKey) == sessionKey \in DOMAIN pending /\ sessionKey \notin DOMAIN pending'

\* no other operation wrote the file since sessionKey loaded it
Sequential(sessionKey) == pending[sessionKey].state = loadModelState(ledger)

\* C27: after any sequence of record and remove operations the ledger has at
\* most one entry per bead id; recording an entry for an id that is present
\* replaces the entry of that id and leaves the entries of the other ids as
\* they were.
C27_OneEntryPerBead ==
  /\ [](\A e1, e2 \in Entries(ledger) : e1.beadId = e2.beadId => e1 = e2)
  /\ [][ \A k \in LedgerSessions :
           (Writes(k) /\ Sequential(k) /\ pending[k].op = "record") =>
             /\ LedgerEntry(pending[k].beadId, k) \in Entries(ledger')
             /\ \A e \in Entries(ledger') :
                  e.beadId = pending[k].beadId => e = LedgerEntry(pending[k].beadId, k)
             /\ { e \in Entries(ledger') : e.beadId # pending[k].beadId }
                  = { e \in Entries(ledger) : e.beadId # pending[k].beadId } ]_vars

\* an entry of one session has been replaced by the other session's entry for
\* the same bead, next to an entry for the other bead
C27_Witness ==
  /\ event.hook = "ledger" /\ event.op = "record" /\ event.wrote
  /\ LedgerEntry(event.beadId, event.sessionKey) \in Entries(ledger)
  /\ Len(ledger.entries) = 2
  /\ ledger.entries[2].beadId = event.beadId
  /\ ledger.entries[2].sessionKey = "agent:helper"
  /\ ledger.entries[1].sessionKey = "agent:main"

\* C28: ledger writes are read-modify-write safe: whatever the interleaving
\* of the loads and saves of two sessions that record or remove different bead
\* ids, a write leaves every entry of another bead id in the ledger.
C28_NoLostEntry ==
  [][ \A k \in LedgerSessions :
        Writes(k) =>
          \A e \in Entries(ledger) :
            e.beadId # pending[k].beadId => e \in Entries(ledger') ]_vars

\* C29: with the ledger file missing, unreadable, unwritable or malformed, the
\* turn-start and tool-call handlers return without raising an error.
C29_LedgerFaultsTolerated ==
  event.hook \in {"before_agent_start", "after_tool_call"} => result # Raised

----------------------------------------------------------------------------
(* The v6 router and the sessions of the host *)

\* A session of the host: the key its turn-start and tool-call contexts carry
\* (ctx.sessionKey, or none) and the id its session_end context carries
\* (ctx.sessionId).  The host may use the key as the id, or an id of its own.
HostSessions ==
  { [name |-> "a", sessionKey |-> "agent:main", sessionId |-> "agent:main"],
    [name |-> "b", sessionKey |-> "agent:helper", sessionId |-> "7f3a"],
    [name |-> "c", sessionKey |-> Undefined, sessionId |-> "91bc"],
    [name |-> "d", sessionKey |-> Undefined, sessionId |-> "c2d4"] }

\* the key under which the router keeps the state of a session
KeyOf(s) == SessionKeyOf([sessionKey |-> s.sessionKey])

S_SessionKeys == { KeyOf(s) : s \in HostSessions }

S_TurnEvents ==
  { [prompt |-> p, hasMessages |-> FALSE, messages |-> <<>>] :
      p \in { <<"H","e","l","l","o"," ","t","h","e","r","e","."," ","H","o","w"," ","a","r","e"," ","y","o","u">>,
              <<"G","o"," ","a","h","e","a","d">>,
              <<"p","l","e","a","s","e"," ","r","e","f","a","c","t","o","r"," ","t","h","i","s"," ","f","u","n","c","t","i","o","n"," ","s","o"," ","t","h","a","t"," ","i","t"," ","h","a","n","d","l","e","s"," ","e","m","p","t","y"," ","i","n","p","u","t"," ","a","n","d"," ","a","d","d"," ","t","e","s","t","s">> } }

S_ToolCalls ==
  { [toolName |-> "exec", hasArgs |-> TRUE, command |-> <<"b","d"," ","c","l","o","s","e"," ","b","d","-","1">>],
    [toolName |-> "read", hasArgs |-> TRUE, command |-> <<"b","d"," ","c","l","o","s","e"," ","b","d","-","1">>] }

InitSessions ==
  /\ sessionStates = [k \in {} |-> InitialState]
  /\ ledger = <<>>
  /\ beadsCreated = 0
  /\ cfg \in { RegisterConfig(raw) : raw \in PluginConfigs }
  /\ event = [hook |-> "register"]
  /\ result = NoDirective
  /\ openSuggestion = [k \in SessionKeys |-> Undefined]
  /\ pending = NoCalls
  /\ active = NoSessions

S_BeforeAgentStart(s, ev, bdSucceeds) ==
  LET sessionKey == KeyOf(s)
      states == getState(sessionStates, sessionKey)
      out == beforeAgentStart(states[sessionKey], ledger, beadsCreated,
                              sessionKey, ev, bdSucceeds, cfg)
  IN /\ bdSucceeds => beadsCreated < MaxBeads
     /\ sessionStates' = PutState(states, sessionKey, out.state)
     /\ ledger' = out.ledger
     /\ beadsCreated' = out.created
     /\ event' = [hook |-> "before_agent_start", session |-> s.name,
                  sessionKey |-> sessionKey,
                  userText |-> ExtractUserText(ev), branch |-> out.branch]
     /\ result' = out.result
     /\ active' = active \cup {s.name}
     /\ UNCHANGED <<cfg, openSuggestion, pending>>

S_AfterToolCall(s, call) ==
  LET sessionKey == KeyOf(s)
      states == getState(sessionStates, sessionKey)
      out == afterToolCall(states[sessionKey], ledger, call)
  IN /\ sessionStates' = PutState(states, sessionKey, out.state)
     /\ ledger' = out.ledger
     /\ event' = [hook |-> "after_tool_call", session |-> s.name,
                  sessionKey |-> sessionKey,
                  toolName |-> call.toolName,
                  command |-> IF call.hasArgs THEN call.command ELSE <<>>]
     /\ result' = NoDirective
     /\ active' = active \cup {s.name}
     /\ UNCHANGED <<beadsCreated, cfg, openSuggestion, pending>>

\* the host ends a session it has begun
S_SessionEnd(s) ==
  /\ s.name \in active
  /\ sessionStates' = sessionEnd(sessionStates, [sessionId |-> s.sessionId])
  /\ event' = [hook |-> "session_end", session |-> s.name, sessionId |-> s.sessionId]
  /\ result' = NoDirective
  /\ active' = active \ {s.name}
  /\ UNCHANGED <<ledger, beadsCreated, cfg, openSuggestion, pending>>

NextSessions ==
  \/ \E s \in HostSessions, ev \in S_TurnEvents, bdSucceeds \in BOOLEAN :
       S_BeforeAgentStart(s, ev, bdSucceeds)
  \/ \E s \in HostSessions, call \in S_ToolCalls : S_AfterToolCall(s, call)
  \/ \E s \in HostSessions : S_SessionEnd(s)

SpecSessions == InitSessions /\ [][NextSessions]_vars

----------------------------------------------------------------------------
(* Properties of the session lifecycle *)

\* the host session of the given name
SessionNamed(n) == CHOOSE s \in HostSessions : s.name = n

\* the step handles an event of host session s
EventOf(s) == event'.hook # "register" /\ event'.session = s.name

\* C31: the first event of a session finds the initial SessionState (default
\* model, no pending suggestion, no queued return), and after session_end
\* has been handled for a session the map holds no entry under its key, so
\* that a later turn start of the session begins from the initial state.
C31_SessionLifecycle ==
  [][ \A s \in HostSessions :
        /\ (EventOf(s) /\ event'.hook = "session_end")
             => KeyOf(s) \notin DOMAIN sessionStates'
        /\ (EventOf(s) /\ s.name \notin active /\ event'.hook # "session_end")
             => Before(KeyOf(s)) = InitialState ]_vars

\* C32: an event of one session leaves the SessionState of every other
\* session that has begun and not ended as it was, also when the host gives
\* no session key for either of them.
C32_SessionIsolation ==
  [][ \A s, t \in HostSessions :
        (EventOf(s) /\ t.name # s.name /\ t.name \in active)
          => /\ KeyOf(t) \in DOMAIN sessionStates'
             /\ sessionStates'[KeyOf(t)] = Before(KeyOf(t)) ]_vars

----------------------------------------------------------------------------
(* The v5 router answered with the phrases of the README *)

\* a task that makes the router suggest, and each documented phrase as a turn
PhraseTurnEvents ==
  { [prompt |-> p, hasMessages |-> FALSE, messages |-> <<>>] :
      p \in ReadmeApproves \cup ReadmeOverrides \cup
            { <<"p","l","e","a","s","e"," ","r","e","f","a","c","t","o","r"," ","t","h","i","s"," ","f","u","n","c","t","i","o","n"," ","s","o"," ","t","h","a","t"," ","i","t"," ","h","a","n","d","l","e","s"," ","e","m","p","t","y"," ","i","n","p","u","t"," ","a","n","d"," ","a","d","d"," ","t","e","s","t","s">> } }

NextPhrases ==
  \/ \E ctx \in HookContexts, ev \in PhraseTurnEvents : V5_BeforeAgentStart(ctx, ev)
  \/ \E ctx \in HookContexts, toolName \in V5_ToolNames : V5_AfterToolCall(ctx, toolName)
  \/ \E ctx \in SessionEndContexts : V5_SessionEnd(ctx)

SpecPhrases == InitV5 /\ [][NextPhrases]_vars

\* C33: while a suggestion is pending, a turn whose text is one of the
\* README's approving phrases approves it (the suggested model becomes
\* current and a switch directive is emitted), and a turn whose text is one of
\* the README's overriding phrases clears it without a switch.
C33_ReadmePhrases ==
  [][ \A k \in SessionKeys :
        (TurnStart(k) /\ V5_Before(k).pendingApproval)
          => /\ event'.userText \in ReadmeApproves
                  => /\ result'.kind = "switch"
                     /\ After(k).currentModel = V5_Before(k).suggestedModel
                     /\ ~After(k).pendingApproval
             /\ event'.userText \in ReadmeOverrides
                  => /\ result'.kind # "switch"
                     /\ ~After(k).pendingApproval
                     /\ After(k).suggestedModel = Undefined
                     /\ After(k).currentModel = V5_Before(k).currentModel ]_vars

----------------------------------------------------------------------------
(* The v6 router under configurations that change the model lists *)

\* api.pluginConfig with a category left without models, and with a
\* category of one model only
SuggestConfigs ==
  PluginConfigs \cup
  { [ models |-> [ simple |-> UndefinedText, moderate |-> << "sonnet" >>,
                   coding |-> <<>>, complex |-> UndefinedText,
                   securityAudit |-> UndefinedText ] ] }

SuggestTexts ==
  { <<"H","e","l","l","o"," ","t","h","e","r","e","."," ","H","o","w"," ","a","r","e"," ","y","o","u">>,
    <<"G","o"," ","a","h","e","a","d">>,
    <<"p","l","e","a","s","e"," ","r","e","f","a","c","t","o","r"," ","t","h","i","s"," ","f","u","n","c","t","i","o","n"," ","s","o"," ","t","h","a","t"," ","i","t"," ","h","a","n","d","l","e","s"," ","e","m","p","t","y"," ","i","n","p","u","t"," ","a","n","d"," ","a","d","d"," ","t","e","s","t","s">>,
    <<"l","o","o","k"," ","i","n","t","o"," ","i","t","."," ","t","h","a","n","k","s">> }

SuggestTurnEvents ==
  { [prompt |-> p, hasMessages |-> FALSE, messages |-> <<>>] : p \in SuggestTexts }

InitSuggest ==
  /\ sessionStates = [k \in {} |-> InitialState]
  /\ ledger = <<>>
  /\ beadsCreated = 0
  /\ cfg \in { RegisterConfig(raw) : raw \in SuggestConfigs }
  /\ event = [hook |-> "register"]
  /\ result = NoDirective
  /\ openSuggestion = [k \in SessionKeys |-> Undefined]
  /\ pending = NoCalls
  /\ active = NoSessions

NextSuggest ==
  \/ \E ctx \in HookContexts, ev \in SuggestTurnEvents, bdSucceeds \in BOOLEAN :
       BeforeAgentStart(ctx, ev, bdSucceeds)
  \/ \E ctx \in HookContexts, call \in S_ToolCalls : AfterToolCall(ctx, call)
  \/ \E ctx \in SessionEndContexts : SessionEnd(ctx)

SpecSuggest == InitSuggest /\ [][NextSuggest]_vars

\* the category of the turn's text and the model list configured for it
TurnCategory == Lookup(ClassifyTable, event'.userText)
TurnModelList == getModelList(TurnCategory, cfg)

\* C34: a turn start with no suggestion pending and no return queued emits no
\* directive and leaves the SessionState as it was when the text classifies
\* as simple, the category's model list is empty, or the list's first model is
\* currentModel; otherwise it sets pendingApproval, sets suggestedModel to the
\* first model, suggestedCategory to the category and suggestedFallbacks to the
\* rest of the list in order, and emits a suggest directive for the first model.
C34_SuggestRule ==
  [][ \A k \in SessionKeys :
        ( /\ TurnStart(k)
          /\ ~Before(k).pendingApproval
          /\ ~Before(k).needsReturnAnnouncement )
        => IF \/ TurnCategory = "simple"
              \/ TurnModelList = <<>>
              \/ TurnModelList[1] = Before(k).currentModel
           THEN /\ result' = NoDirective
                /\ After(k) = Before(k)
           ELSE /\ After(k).pendingApproval
                /\ After(k).suggestedModel = TurnModelList[1]
                /\ After(k).suggestedCategory = TurnCategory
                /\ After(k).suggestedFallbacks = Rest(TurnModelList)
                /\ result'.kind = "suggest"
                /\ result'.model = TurnModelList[1] ]_vars

\* a coding request under a configuration without coding models: nothing is
\* suggested
C34_Witness ==
  /\ event.hook = "before_agent_start"
  /\ event.branch = "noModel"
  /\ cfg.models.coding = <<>>
  /\ result = NoDirective
  /\ ~sessionStates[event.sessionKey].pendingApproval

----------------------------------------------------------------------------
(* getComplementModel of v3 and of v4 under the default complement table *)

\* the model tokens a collaboration scan can hand over: both revisions
\* lowercase the announced token
DiversityPeers ==
  { toLowerCase(m) : m \in PeerIdentifiers }
  \cup { <<"o","p","u","s","-","4","-","5">>, <<"g","e","m","i","n","i","-","3","-","p","r","o">>, <<"c","l","a","u","d","e","-","o","p","u","s","-","4","-","5">>, <<"g","e","m","i","n","i","-","f","l","a","s","h">>, <<"s","o","n","n","e","t","-","4","-","5">> }

DiversityVersions == {"v3", "v4"}

InitDiversity ==
  /\ sessionStates = [k \in {} |-> V4_InitialState(V4_DEFAULT_CONFIG.defaultModel)]
  /\ ledger = <<>>
  /\ beadsCreated = 0
  /\ cfg = V4_RegisterConfig([keys |-> {}])
  /\ event \in { [hook |-> "complement", version |-> v, model |-> m] :
                   v \in DiversityVersions, m \in DiversityPeers }
  /\ result = NoDirective
  /\ openSuggestion = [k \in SessionKeys |-> Undefined]
  /\ pending = NoCalls
  /\ active = NoSessions

\* the complement the collaboration rule of the revision computes for the peer
DefaultComplement ==
  /\ result = NoDirective
  /\ result' = [kind |-> "complement",
                model |-> IF event.version = "v3"
                          THEN V3_getComplementModel(event.model, V3_modelComplements)
                          ELSE V4_getComplementModel(event.model, V4_modelComplements)]
  /\ UNCHANGED <<sessionStates, ledger, beadsCreated, cfg, event, openSuggestion, active, pending>>

NextDiversity == DefaultComplement

SpecDiversity == InitDiversity /\ [][NextDiversity]_vars

====
